---- MODULE Spec2Model ----
(***************************************************************************)
(* Vineyard monitoring backend: the real-time telemetry pipeline.          *)
(*                                                                         *)
(*   - the websocket connection registry and its fan-out                   *)
(*     (app/websockets/connection_manager.py, app/websockets/routes.py),   *)
(*   - the alert threshold store and the alert state machine               *)
(*     (app/services/sensor.py),                                           *)
(*   - the sensor value generator (app/services/sensor_simulator.py).      *)
(*                                                                         *)
(* Each subsystem has its own specification over the shared variables      *)
(* (SpecConn, SpecAlert, SpecThreshold, SpecGen); the variables of the     *)
(* other subsystems stay at their initial value.                           *)
(*                                                                         *)
(* Python None is 0 for user ids, and "none" for strings.  Float values    *)
(* are integers in hundredths of the sensor's unit.                        *)
(***************************************************************************)
EXTENDS Integers, Sequences, FiniteSets, TLC

VARIABLES
    \* ConnectionManager (connection_manager.py:17-26)
    active_connections,   \* List[WebSocket]
    group_connections,    \* Dict[str, List[WebSocket]]
    user_connections,     \* Dict[int, List[WebSocket]]
    \* one websocket_endpoint invocation per connection (routes.py:25-785)
    handler,              \* "new" (not yet accepted), "open" (read loop), "closed",
                          \* "rejected" (closed before it was accepted)
    conn_user,            \* the user_id the endpoint resolved for the connection
    alive,                \* FALSE once the transport is broken: send_text raises
    last_call,            \* the last operation: its inputs, whether conn was registered, deliveries
    ops,                  \* number of registry operations so far
    endpoint,             \* the posture of the settings and the last connection attempt
    evaluating,           \* per task: the check_sensor_thresholds call suspended at an await
    sending,              \* the fan-out suspended inside a send: its list, position, deliveries
    \* storage (models/sensor_data.py)
    thresholds,           \* SensorAlertThreshold rows, in creation order (id = index)
    alerts,               \* SensorAlert rows, in creation order (id = index)
    last_eval,            \* the last check_sensor_thresholds run: inputs, alerts before, result
    prev_kind,            \* per sensor: range class of the previously evaluated reading
    last_thr,             \* the last threshold operation: inputs, rows before
    \* generator (sensor_simulator.py:23)
    last_sensor_values,   \* {user_id: {sensor_id: {type: last_value}}}
    sensor_count,         \* User.sensor_count per user
    gen_steps,            \* generate_sensor_value calls so far
    last_gen,             \* the last generate_sensor_value call: type and result
    last_run,             \* the last generate_and_save_sensor_data run: inputs, messages
    sim                   \* the run_sensor_simulator task: position, owners left, flags

conn_vars == <<active_connections, group_connections, user_connections,
               handler, conn_user, alive, last_call, ops, endpoint,
               evaluating, sending>>
store_vars == <<thresholds, alerts, last_eval, prev_kind, last_thr>>
gen_vars == <<last_sensor_values, sensor_count, gen_steps, last_gen, last_run, sim>>
vars == <<conn_vars, store_vars, gen_vars>>

\* ------------------------------------------------------------------------
\* Bounds of the model
\* ------------------------------------------------------------------------
NumConns == 2
MaxOps == 4
MaxAlerts == 3
MaxThresholds == 3
MaxSensorCount == 1
MaxGenSteps == 2
\* the largest User.sensor_count of the stream-set checks
MaxStreamCount == 31
\* nested calls before the interpreter raises RecursionError
RecursionLimit == 3

NoUser == 0
Conns == 1..NumConns
Users == {1, 2}

\* ------------------------------------------------------------------------
\* Python list and dict helpers
\* ------------------------------------------------------------------------
InList(s, x) == \E i \in 1..Len(s) : s[i] = x

Range(s) == {s[i] : i \in 1..Len(s)}

\* list.remove(x): drops the first occurrence only
ListRemove(s, x) ==
    LET i == CHOOSE k \in 1..Len(s) : s[k] = x /\ \A j \in 1..(k-1) : s[j] # x
    IN  SubSeq(s, 1, i-1) \o SubSeq(s, i+1, Len(s))

DictGet(d, k, default) == IF k \in DOMAIN d THEN d[k] ELSE default

DictPut(d, k, v) == [x \in (DOMAIN d) \cup {k} |-> IF x = k THEN v ELSE d[x]]

EmptyDict == [x \in {} |-> <<>>]

\* ------------------------------------------------------------------------
\* Connection registry
\* ------------------------------------------------------------------------
UserGroup(u) == "user:" \o ToString(u)

SensorAllGroup == "sensor:all"
TypeGroup == "sensor:temperature"
LocationGroup == "location:1"

\* group names a client may name in the groups query parameter or in a
\* subscribe / unsubscribe message
ClientGroups == {SensorAllGroup, TypeGroup} \cup {UserGroup(u) : u \in Users}

GroupLists == {<<>>} \cup {<<g>> : g \in ClientGroups}

Registry == [active |-> active_connections,
             groups |-> group_connections,
             users  |-> user_connections]

\* for each key of d whose list holds ws: remove ws, and delete the key when
\* the list becomes empty
StripDict(d, ws) ==
    LET after(k) == IF InList(d[k], ws) THEN ListRemove(d[k], ws) ELSE d[k]
        kept == {k \in DOMAIN d : ~InList(d[k], ws) \/ after(k) # <<>>}
    IN  [k \in kept |-> after(k)]

\* a disconnect that forgets the owner index
disconnect_keeps_owner(r, ws) ==
    [active |-> IF InList(r.active, ws) THEN ListRemove(r.active, ws) ELSE r.active,
     users  |-> r.users,
     groups |-> StripDict(r.groups, ws)]

disconnect(r, ws) ==
    [active |-> IF InList(r.active, ws) THEN ListRemove(r.active, ws) ELSE r.active,
     users  |-> StripDict(r.users, ws),
     groups |-> StripDict(r.groups, ws)]

\* an add_to_group without the membership test
add_to_group_twice(r, ws, group) ==
    [r EXCEPT !.groups = DictPut(r.groups, group,
                                 Append(DictGet(r.groups, group, <<>>), ws))]

add_to_group(r, ws, group) ==
    LET lst == DictGet(r.groups, group, <<>>)
    IN  [r EXCEPT !.groups =
            DictPut(r.groups, group, IF InList(lst, ws) THEN lst ELSE Append(lst, ws))]

\* a remove_from_group that keeps the entry of a group it has emptied
remove_keeping_empty(r, ws, group) ==
    IF group \in DOMAIN r.groups /\ InList(r.groups[group], ws)
    THEN [r EXCEPT !.groups = DictPut(r.groups, group, ListRemove(r.groups[group], ws))]
    ELSE r

remove_from_group(r, ws, group) ==
    IF group \in DOMAIN r.groups /\ InList(r.groups[group], ws)
    THEN LET lst == ListRemove(r.groups[group], ws)
         IN  [r EXCEPT !.groups =
                 IF lst = <<>>
                 THEN [k \in (DOMAIN r.groups) \ {group} |-> r.groups[k]]
                 ELSE DictPut(r.groups, group, lst)]
    ELSE r

\* a subscribe that joins the first group of the list only
AddToFirstGroup(r, ws, groups) ==
    IF groups = <<>> THEN r ELSE add_to_group(r, ws, Head(groups))

RECURSIVE AddToGroups(_, _, _)
AddToGroups(r, ws, groups) ==
    IF groups = <<>> THEN r
    ELSE AddToGroups(add_to_group(r, ws, Head(groups)), ws, Tail(groups))

RECURSIVE RemoveFromGroups(_, _, _)
RemoveFromGroups(r, ws, groups) ==
    IF groups = <<>> THEN r
    ELSE RemoveFromGroups(remove_from_group(r, ws, Head(groups)), ws, Tail(groups))

connect(r, ws, user_id, groups) ==
    LET r1 == [r EXCEPT !.active = Append(r.active, ws)]
        r2 == IF user_id # NoUser
              THEN [r1 EXCEPT !.users =
                       DictPut(r1.users, user_id,
                               Append(DictGet(r1.users, user_id, <<>>), ws))]
              ELSE r1
    IN  AddToGroups(r2, ws, groups)

\* the result of a sending operation: the registry after it, the connections
\* whose send_text returned, and those whose send_text raised
Outcome(r, sent, failed) == [reg |-> r, sent |-> sent, failed |-> failed]

RECURSIVE DisconnectAll(_, _)
DisconnectAll(r, conns) ==
    IF conns = <<>> THEN r
    ELSE DisconnectAll(disconnect(r, Head(conns)), Tail(conns))

IsAlive(c) == alive[c]
IsBroken(c) == ~alive[c]

send_personal_message(r, ws) ==
    IF alive[ws] THEN Outcome(r, <<ws>>, <<>>)
    ELSE Outcome(disconnect(r, ws), <<>>, <<ws>>)

\* send_to_user iterates over a copy and disconnects a failing connection
\* at once
RECURSIVE SendEach(_, _, _, _)
SendEach(r, snapshot, sent, failed) ==
    IF snapshot = <<>> THEN Outcome(r, sent, failed)
    ELSE LET c == Head(snapshot)
         IN  IF alive[c]
             THEN SendEach(r, Tail(snapshot), Append(sent, c), failed)
             ELSE SendEach(disconnect(r, c), Tail(snapshot), sent, Append(failed, c))

send_to_user(r, user_id) ==
    IF user_id \in DOMAIN r.users
    THEN SendEach(r, r.users[user_id], <<>>, <<>>)
    ELSE Outcome(r, <<>>, <<>>)

\* broadcast and broadcast_to_group iterate over a copy, collect the failing
\* connections and disconnect them after the loop
\* a fan-out that stops at the first failing send
RECURSIVE FanOutAborting(_, _)
FanOutAborting(r, snapshot) ==
    IF snapshot = <<>> THEN Outcome(r, <<>>, <<>>)
    ELSE IF alive[Head(snapshot)]
         THEN LET rest == FanOutAborting(r, Tail(snapshot))
              IN  Outcome(rest.reg, <<Head(snapshot)>> \o rest.sent, rest.failed)
         ELSE Outcome(disconnect(r, Head(snapshot)), <<>>, <<Head(snapshot)>>)

FanOut(r, snapshot) ==
    LET disconnected == SelectSeq(snapshot, IsBroken)
    IN  Outcome(DisconnectAll(r, disconnected),
                SelectSeq(snapshot, IsAlive), disconnected)

broadcast(r) == FanOut(r, r.active)

broadcast_to_group(r, group) ==
    IF group \notin DOMAIN r.groups
    THEN Outcome([r EXCEPT !.groups = DictPut(r.groups, group, <<>>)], <<>>, <<>>)
    ELSE IF Len(r.groups[group]) = 0
         THEN Outcome(r, <<>>, <<>>)
         ELSE FanOut(r, r.groups[group])

\* sequential composition of two sending operations, the second one run on
\* the registry the first one left
Join(o1, o2) == Outcome(o2.reg, o1.sent \o o2.sent, o1.failed \o o2.failed)

\* "for connection in user_connections: await send_personal_message(...)"
\* iterates over the registry's own list, which disconnect mutates
RECURSIVE DirectLoop(_, _, _, _, _)
DirectLoop(r, user_id, i, sent, failed) ==
    LET lst == DictGet(r.users, user_id, <<>>)
    IN  IF i > Len(lst) THEN Outcome(r, sent, failed)
        ELSE IF alive[lst[i]]
             THEN DirectLoop(r, user_id, i + 1, Append(sent, lst[i]), failed)
             ELSE DirectLoop(disconnect(r, lst[i]), user_id, i + 1,
                             sent, Append(failed, lst[i]))

ToOwner(r, user_id) ==
    LET viaGroup == broadcast_to_group(r, UserGroup(user_id))
    IN  Join(viaGroup, DirectLoop(viaGroup.reg, user_id, 1, <<>>, <<>>))

\* the fallback groups of a reading without owner (sensor.py:386-397)
FallbackGroups == <<TypeGroup, LocationGroup, SensorAllGroup>>

\* a broadcast that sends the owner's reading to the fallback groups as well
broadcast_to_owner_and_groups(r, user_id) ==
    LET byType == broadcast_to_group(r, TypeGroup)
        byLocation == broadcast_to_group(byType.reg, LocationGroup)
        all == broadcast_to_group(byLocation.reg, SensorAllGroup)
        groups == Join(Join(byType, byLocation), all)
    IN  IF user_id # NoUser THEN Join(groups, ToOwner(groups.reg, user_id)) ELSE groups

broadcast_sensor_data(r, user_id) ==
    IF user_id # NoUser
    THEN ToOwner(r, user_id)
    ELSE LET byType == broadcast_to_group(r, TypeGroup)
             byLocation == broadcast_to_group(byType.reg, LocationGroup)
             all == broadcast_to_group(byLocation.reg, SensorAllGroup)
         IN  Join(Join(byType, byLocation), all)

broadcast_sensor_alert(r, user_id) ==
    IF user_id # NoUser THEN ToOwner(r, user_id) ELSE broadcast(r)

\* ------------------------------------------------------------------------
\* Initial values of the three subsystems
\* ------------------------------------------------------------------------
NoCall == [op |-> "none", conn |-> 0, user |-> NoUser, group |-> "none", groups |-> <<>>,
           known |-> FALSE, sent |-> <<>>, failed |-> <<>>]

\* no bearer credential in the query (routes.py:27)
NoToken == [kind |-> "none", sub |-> NoUser]

\* no connection was attempted; the settings are those of development
NoAttempt == [production |-> FALSE, conn |-> 0, token |-> NoToken,
              user_id |-> NoUser, code |-> 0]

\* the coroutines that evaluate readings side by side: the scheduler's tick
\* (sensor_simulator.py:349-374) and a request_data command (routes.py:236-249)
Tasks == {"scheduler", "request"}

\* no check_sensor_thresholds call is in progress in the task
NoEvaluation == [pc |-> "idle", sensor_id |-> "none", value |-> 0, user_id |-> NoUser,
                 min_value |-> 0, max_value |-> 0,
                 last_alert |-> 0, last_type |-> "none", closed |-> FALSE]

\* no fan-out is in progress
NoFanOut == [op |-> "none", pc |-> "idle", group |-> "none", user |-> NoUser,
             snapshot |-> <<>>, i |-> 0, cur |-> 0,
             sent |-> <<>>, disconnected |-> <<>>, stayed |-> {}]

NoTasks ==
    /\ evaluating = [t \in Tasks |-> NoEvaluation]
    /\ sending = NoFanOut

ConnInit ==
    /\ active_connections = <<>>
    /\ group_connections = EmptyDict
    /\ user_connections = EmptyDict
    /\ handler = [c \in Conns |-> "new"]
    /\ conn_user = [c \in Conns |-> NoUser]
    /\ alive = [c \in Conns |-> TRUE]
    /\ last_call = NoCall
    /\ ops = 0
    /\ endpoint = NoAttempt
    /\ NoTasks

SetRegistry(r) ==
    /\ active_connections' = r.active
    /\ group_connections' = r.groups
    /\ user_connections' = r.users

\* an operation on the registry; gs is the groups list of a subscribe or
\* unsubscribe message
CallGroups(op, c, u, g, gs, o) ==
    /\ ops < MaxOps
    /\ ops' = ops + 1
    /\ UNCHANGED <<store_vars, gen_vars, endpoint, evaluating, sending>>
    /\ SetRegistry(o.reg)
    /\ last_call' = [op |-> op, conn |-> c, user |-> u, group |-> g, groups |-> gs,
                     known |-> InList(active_connections, c),
                     sent |-> o.sent, failed |-> o.failed]

Call(op, c, u, g, o) == CallGroups(op, c, u, g, <<>>, o)

\* ------------------------------------------------------------------------
\* websocket_endpoint
\* ------------------------------------------------------------------------
\* the client's groups and nothing else
ClientListOnly(groups, user_id) == groups
\* routes.py:88-103: the client's groups, then sensor:all, then the owner's group
EndpointGroups(groups, user_id) ==
    LET g1 == IF InList(groups, SensorAllGroup) THEN groups
              ELSE Append(groups, SensorAllGroup)
    IN  IF user_id # NoUser /\ ~InList(g1, UserGroup(user_id))
        THEN Append(g1, UserGroup(user_id))
        ELSE g1

\* routes.py:88-118: accept, register, welcome
Connect(c, u, gs) ==
    /\ handler[c] = "new"
    /\ \A d \in Conns : d < c => handler[d] # "new"
    /\ handler' = [handler EXCEPT ![c] = "open"]
    /\ conn_user' = [conn_user EXCEPT ![c] = u]
    /\ Call("connect", c, u, "none",
            send_personal_message(connect(Registry, c, u, EndpointGroups(gs, u)), c))
    /\ UNCHANGED alive

\* the transport breaks: every later send_text on it raises
Break(c) ==
    /\ handler[c] = "open"
    /\ alive[c]
    /\ ops < MaxOps
    /\ ops' = ops + 1
    /\ alive' = [alive EXCEPT ![c] = FALSE]
    /\ last_call' = [NoCall EXCEPT !.op = "break", !.conn = c]
    /\ UNCHANGED <<active_connections, group_connections, user_connections,
                   handler, conn_user, endpoint, evaluating, sending,
                   store_vars, gen_vars>>

\* routes.py:777-785: receive_json raises, the handler disconnects and returns
Close(c) ==
    /\ handler[c] = "open"
    /\ handler' = [handler EXCEPT ![c] = "closed"]
    /\ conn_user' = [conn_user EXCEPT ![c] = NoUser]
    /\ alive' = [alive EXCEPT ![c] = FALSE]
    /\ Call("disconnect", c, conn_user[c], "none",
            Outcome(disconnect(Registry, c), <<>>, <<>>))

\* routes.py:198-204
Ping(c) ==
    /\ handler[c] = "open"
    /\ Call("send_personal_message", c, conn_user[c], "none",
            send_personal_message(Registry, c))
    /\ UNCHANGED <<handler, conn_user, alive>>

\* routes.py:206-220
Subscribe(c, gs) ==
    /\ handler[c] = "open"
    /\ CallGroups("subscribe", c, conn_user[c], "none", gs,
                  send_personal_message(AddToGroups(Registry, c, gs), c))
    /\ UNCHANGED <<handler, conn_user, alive>>

\* routes.py:222-234
Unsubscribe(c, gs) ==
    /\ handler[c] = "open"
    /\ CallGroups("unsubscribe", c, conn_user[c], "none", gs,
                  send_personal_message(RemoveFromGroups(Registry, c, gs), c))
    /\ UNCHANGED <<handler, conn_user, alive>>

\* ------------------------------------------------------------------------
\* Fan-out operations, as the services and routes call them
\* ------------------------------------------------------------------------
BroadcastToGroup(g) ==
    /\ Call("broadcast_to_group", 0, NoUser, g, broadcast_to_group(Registry, g))
    /\ UNCHANGED <<handler, conn_user, alive>>

Broadcast ==
    /\ Call("broadcast", 0, NoUser, "none", broadcast(Registry))
    /\ UNCHANGED <<handler, conn_user, alive>>

SendToUser(u) ==
    /\ Call("send_to_user", 0, u, "none", send_to_user(Registry, u))
    /\ UNCHANGED <<handler, conn_user, alive>>

\* a reading of owner u (NoUser: a reading without owner) is broadcast
BroadcastSensorData(u) ==
    /\ Call("sensor_data", 0, u, "none", broadcast_sensor_data(Registry, u))
    /\ UNCHANGED <<handler, conn_user, alive>>

BroadcastSensorAlert(u) ==
    /\ Call("sensor_alert", 0, u, "none", broadcast_sensor_alert(Registry, u))
    /\ UNCHANGED <<handler, conn_user, alive>>

ConnNext ==
    \/ \E c \in Conns, u \in Users \cup {NoUser}, gs \in GroupLists : Connect(c, u, gs)
    \/ \E c \in Conns : Break(c)
    \/ \E c \in Conns : Close(c)
    \/ \E c \in Conns : Ping(c)
    \/ \E c \in Conns, gs \in GroupLists \ {<<>>} : Subscribe(c, gs)
    \/ \E c \in Conns, gs \in GroupLists \ {<<>>} : Unsubscribe(c, gs)
    \/ \E g \in ClientGroups : BroadcastToGroup(g)
    \/ Broadcast
    \/ \E u \in Users : SendToUser(u)
    \/ \E u \in Users \cup {NoUser} : BroadcastSensorData(u)
    \/ \E u \in Users \cup {NoUser} : BroadcastSensorAlert(u)

\* ------------------------------------------------------------------------
\* Sensor types (models/sensor_data.py, services/sensor_simulator.py)
\* ------------------------------------------------------------------------
SensorTypes == <<"temperature", "humidity", "soil_moisture", "soil_temperature",
                 "light", "ph", "wind_speed", "wind_direction", "rainfall", "co2">>

SensorRange(lo, hi, unit, mc) ==
    [min |-> lo, max |-> hi, unit |-> unit, max_change |-> mc]

\* min, max and max_change in hundredths of the unit
SENSOR_RANGES ==
    [t \in Range(SensorTypes) |->
        CASE t = "temperature" -> SensorRange(1500, 3500, "C", 50)
          [] t = "humidity" -> SensorRange(4000, 9500, "%", 200)
          [] t = "soil_moisture" -> SensorRange(2000, 8000, "%", 150)
          [] t = "soil_temperature" -> SensorRange(1200, 3000, "C", 30)
          [] t = "light" -> SensorRange(0, 10000000, "lux", 500000)
          [] t = "ph" -> SensorRange(550, 800, "pH", 10)
          [] t = "wind_speed" -> SensorRange(0, 2000, "m/s", 200)
          [] t = "wind_direction" -> SensorRange(0, 35900, "degrees", 2000)
          [] t = "rainfall" -> SensorRange(0, 5000, "mm", 500)
          [] t = "co2" -> SensorRange(30000, 150000, "ppm", 5000)]

\* ------------------------------------------------------------------------
\* Storage: thresholds and alerts (services/sensor.py)
\* ------------------------------------------------------------------------
Sensors == {"s1", "s2"}
SensorTypeOf(sensor_id) == "temperature"
UnitOf(sensor_type) == SENSOR_RANGES[sensor_type].unit

\* readings around the threshold [10.00, 20.00], both bounds included
Values == {500, 1000, 1500, 2000, 2500}

Max(S) == CHOOSE x \in S : \A y \in S : y <= x

\* a SensorAlertThreshold row; its id is its index in the table, and a row
\* removed by .delete() stays in the table as deleted so that ids are not reused
ThresholdRow(sensor_type, unit, min_value, max_value, is_active, user_id) ==
    [sensor_type |-> sensor_type, unit |-> unit, min_value |-> min_value,
     max_value |-> max_value, is_active |-> is_active, created_by |-> user_id,
     deleted |-> FALSE]

\* SensorAlertThreshold.filter(sensor_type, unit, is_active=True): the ids
ActiveThresholds(ths, sensor_type, unit) ==
    {i \in 1..Len(ths) : /\ ~ths[i].deleted
                         /\ ths[i].sensor_type = sensor_type
                         /\ ths[i].unit = unit
                         /\ ths[i].is_active}

\* the newest row of the key, active or not
FirstThreshold(ths, sensor_type, unit) ==
    LET S == {i \in 1..Len(ths) : /\ ~ths[i].deleted
                                  /\ ths[i].sensor_type = sensor_type
                                  /\ ths[i].unit = unit}
    IN  IF S = {} THEN 0 ELSE Max(S)

\* .first() under Meta.ordering = ["-created_at"]: the newest, 0 when none
FirstActiveThreshold(ths, sensor_type, unit) ==
    LET S == ActiveThresholds(ths, sensor_type, unit)
    IN  IF S = {} THEN 0 ELSE Max(S)

\* SensorAlert.filter(sensor_id, is_active=True).order_by("-timestamp").first()
LastActiveAlert(als, sensor_id) ==
    LET S == {i \in 1..Len(als) : als[i].sensor_id = sensor_id /\ als[i].is_active}
    IN  IF S = {} THEN 0 ELSE Max(S)

\* SensorAlert.create: timestamp = now, resolved_at = None
create_sensor_alert(als, sensor_id, alert_type, user_id, is_active) ==
    Append(als, [sensor_id |-> sensor_id, alert_type |-> alert_type,
                 is_active |-> is_active, resolved_at |-> "none",
                 user_id |-> user_id])

\* a resolve that also closes every older alert
resolve_alert_and_older(als, alert_id) ==
    [i \in 1..Len(als) |->
        IF i <= alert_id THEN [als[i] EXCEPT !.is_active = FALSE, !.resolved_at = "now"]
        ELSE als[i]]

resolve_alert(als, alert_id) ==
    IF alert_id \in 1..Len(als)
    THEN [als EXCEPT ![alert_id].is_active = FALSE, ![alert_id].resolved_at = "now"]
    ELSE als

\* the result of an evaluation: the alert table and the id of the created
\* alert (0: None)
Evaluated(als, alert) == [alerts |-> als, alert |-> alert]

Created(als) == Evaluated(als, Len(als))

check_sensor_value_against_threshold(als, sensor_id, value, threshold, user_id) ==
    LET last_alert == LastActiveAlert(als, sensor_id)
        last_type == IF last_alert = 0 THEN "none" ELSE als[last_alert].alert_type
    IN  IF value > threshold.max_value
        THEN IF last_alert = 0 \/ last_type # "high"
             THEN Created(create_sensor_alert(als, sensor_id, "high", user_id, TRUE))
             ELSE Evaluated(als, 0)
        ELSE IF value < threshold.min_value
        THEN IF last_alert = 0 \/ last_type # "low"
             THEN Created(create_sensor_alert(als, sensor_id, "low", user_id, TRUE))
             ELSE Evaluated(als, 0)
        ELSE IF last_alert # 0 /\ als[last_alert].is_active
                /\ last_type \in {"high", "low"}
        THEN Created(create_sensor_alert(resolve_alert(als, last_alert),
                                         sensor_id, "normal", user_id, FALSE))
        ELSE Evaluated(als, 0)

\* sensor.py:295-304
\* a status that counts a value on a bound as outside the range
StatusOfInclusive(value, threshold) ==
    IF value <= threshold.min_value THEN "low"
    ELSE IF value >= threshold.max_value THEN "high"
    ELSE "normal"

\* sensor.py:295-304: the status written to the reading
StatusOf(value, threshold) ==
    IF value < threshold.min_value THEN "low"
    ELSE IF value > threshold.max_value THEN "high"
    ELSE "normal"

\* check_sensor_thresholds: the status given to the reading, whether the
\* alert state machine ran, and its result
check_sensor_thresholds(ths, als, sensor_id, sensor_type, value, user_id) ==
    LET id == FirstActiveThreshold(ths, sensor_type, UnitOf(sensor_type))
    IN  IF id = 0
        THEN [status |-> "normal", checked |-> FALSE, result |-> Evaluated(als, 0)]
        ELSE IF user_id = NoUser
        THEN [status |-> StatusOf(value, ths[id]), checked |-> FALSE,
              result |-> Evaluated(als, 0)]
        ELSE [status |-> StatusOf(value, ths[id]), checked |-> TRUE,
              result |-> check_sensor_value_against_threshold(
                             als, sensor_id, value, ths[id], user_id)]

NoEval == [op |-> "none", sensor_id |-> "none", value |-> 0, user_id |-> NoUser,
           status |-> "none", checked |-> FALSE, alert |-> 0]

NoThresholdOp == [op |-> "none", id |-> 0, user_id |-> NoUser]

StoreInit ==
    /\ thresholds = <<>>
    /\ alerts = <<>>
    /\ last_eval = NoEval
    /\ prev_kind = [s \in Sensors |-> "none"]
    /\ last_thr = NoThresholdOp

\* the threshold of the worked examples: temperature in [10.00, 20.00]
ExampleThreshold == ThresholdRow("temperature", "C", 1000, 2000, TRUE, 1)

\* the alert engine starts on an empty alert table, with or without an
\* active threshold for the sensors' type
AlertInit ==
    /\ thresholds \in {<<>>, <<ExampleThreshold>>}
    /\ alerts = <<>>
    /\ last_eval = NoEval
    /\ prev_kind = [s \in Sensors |-> "none"]
    /\ last_thr = NoThresholdOp

\* a reading of sensor s with value v and owner u is evaluated; a created
\* alert is broadcast (sensor.py:319-326)
Evaluate(s, v, u) ==
    LET e == check_sensor_thresholds(thresholds, alerts, s, SensorTypeOf(s), v, u)
        o == broadcast_sensor_alert(Registry, u)
    IN  /\ Len(e.result.alerts) <= MaxAlerts
        /\ alerts' = e.result.alerts
        /\ last_eval' = [op |-> "check_sensor_thresholds", sensor_id |-> s,
                         value |-> v, user_id |-> u, status |-> e.status,
                         checked |-> e.checked, alert |-> e.result.alert]
        /\ prev_kind' = IF e.checked THEN [prev_kind EXCEPT ![s] = e.status]
                        ELSE prev_kind
        /\ IF e.result.alert # 0
           THEN /\ SetRegistry(o.reg)
                /\ last_call' = [op |-> "sensor_alert", conn |-> 0, user |-> u,
                                 group |-> "none", groups |-> <<>>, known |-> FALSE,
                                 sent |-> o.sent, failed |-> o.failed]
           ELSE UNCHANGED <<active_connections, group_connections,
                            user_connections, last_call>>
        /\ UNCHANGED <<thresholds, last_thr, handler, conn_user, alive, ops,
                       endpoint, evaluating, sending, gen_vars>>

\* ------------------------------------------------------------------------
\* Evaluations that interleave at their storage awaits (services/sensor.py)
\* ------------------------------------------------------------------------
\* readings below, inside and above the threshold [10.00, 20.00]
RaceValues == {500, 1500, 2500}

\* the step of task t: its record changes, the other task's does not
Resume(t, rec) == evaluating' = [evaluating EXCEPT ![t] = rec]

\* sensor.py:319-326: the created alert is broadcast to its owner
AlertBroadcast(u) ==
    LET o == broadcast_sensor_alert(Registry, u)
    IN  /\ SetRegistry(o.reg)
        /\ last_call' = [op |-> "sensor_alert", conn |-> 0, user |-> u,
                         group |-> "none", groups |-> <<>>, known |-> FALSE,
                         sent |-> o.sent, failed |-> o.failed]

\* sensor.py:285-307: task t reads the active threshold of the reading's type
\* and saves the status; a reading with an owner goes on to
\* check_sensor_value_against_threshold
StartEvaluation(t, s, v, u) ==
    LET id == FirstActiveThreshold(thresholds, SensorTypeOf(s), UnitOf(SensorTypeOf(s)))
    IN  /\ evaluating[t].pc = "idle"
        /\ Resume(t, IF id = 0 \/ u = NoUser THEN NoEvaluation
                      ELSE [NoEvaluation EXCEPT !.pc = "query", !.sensor_id = s,
                                                !.value = v, !.user_id = u,
                                                !.min_value = thresholds[id].min_value,
                                                !.max_value = thresholds[id].max_value])
        /\ UNCHANGED <<active_connections, group_connections, user_connections,
                       handler, conn_user, alive, last_call, ops, endpoint, sending,
                       store_vars, gen_vars>>

\* sensor.py:567-571: the query for the last active alert returns to task t
QueryLastAlert(t) ==
    LET e == evaluating[t]
        last_alert == LastActiveAlert(alerts, e.sensor_id)
    IN  /\ e.pc = "query"
        /\ Resume(t, [e EXCEPT !.pc = "decide", !.last_alert = last_alert,
                               !.last_type = IF last_alert = 0 THEN "none"
                                             ELSE alerts[last_alert].alert_type])
        /\ UNCHANGED <<active_connections, group_connections, user_connections,
                       handler, conn_user, alive, last_call, ops, endpoint, sending,
                       store_vars, gen_vars>>

\* sensor.py:573-646: task t decides on the last_alert it holds and does its
\* next write: the alert of a breaching reading is created, or the prior
\* alert of a reading back in range is resolved
ActOnLastAlert(t) ==
    LET e == evaluating[t]
        kind == IF e.value > e.max_value THEN "high"
                ELSE IF e.value < e.min_value THEN "low" ELSE "normal"
    IN  /\ e.pc = "decide"
        /\ IF kind # "normal"
           THEN IF e.last_alert = 0 \/ e.last_type # kind
                THEN /\ Len(alerts) < MaxAlerts
                     /\ alerts' = create_sensor_alert(alerts, e.sensor_id, kind,
                                                      e.user_id, TRUE)
                     /\ AlertBroadcast(e.user_id)
                     /\ Resume(t, NoEvaluation)
                ELSE /\ Resume(t, NoEvaluation)
                     /\ UNCHANGED <<alerts, active_connections, group_connections,
                                    user_connections, last_call>>
           ELSE IF e.last_alert # 0 /\ e.last_type \in {"high", "low"}
                THEN /\ alerts' = resolve_alert(alerts, e.last_alert)
                     /\ Resume(t, [e EXCEPT !.pc = "normalise",
                                            !.closed = alerts[e.last_alert].is_active])
                     /\ UNCHANGED <<active_connections, group_connections,
                                    user_connections, last_call>>
                ELSE /\ Resume(t, NoEvaluation)
                     /\ UNCHANGED <<alerts, active_connections, group_connections,
                                    user_connections, last_call>>
        /\ UNCHANGED <<thresholds, last_eval, prev_kind, last_thr, handler, conn_user,
                       alive, ops, endpoint, sending, gen_vars>>

\* sensor.py:622-646: after resolve_alert returned, task t creates the
\* inactive "normal" alert and broadcasts it
CreateNormal(t) ==
    LET e == evaluating[t]
    IN  /\ e.pc = "normalise"
        /\ Len(alerts) < MaxAlerts
        /\ alerts' = create_sensor_alert(alerts, e.sensor_id, "normal", e.user_id, FALSE)
        /\ AlertBroadcast(e.user_id)
        /\ Resume(t, NoEvaluation)
        /\ UNCHANGED <<thresholds, last_eval, prev_kind, last_thr, handler, conn_user,
                       alive, ops, endpoint, sending, gen_vars>>

\* a scheduler tick and a request_data command evaluate readings of owner 1
RaceNext ==
    \/ \E t \in Tasks, s \in Sensors, v \in RaceValues : StartEvaluation(t, s, v, 1)
    \/ \E t \in Tasks : QueryLastAlert(t)
    \/ \E t \in Tasks : ActOnLastAlert(t)
    \/ \E t \in Tasks : CreateNormal(t)

\* ------------------------------------------------------------------------
\* The resolve_alert request (websockets/routes.py:677-756)
\* ------------------------------------------------------------------------
\* the alert_id of a request: 0 is a message without alert_id, the largest
\* is the id of no alert
AlertIds == 0..(MaxAlerts + 1)

\* the reply to {type: request_data, target: resolve_alert, alert_id}: a
\* missing alert_id raises ValueError, an id of no alert makes resolve_alert
\* return None; both are answered with a system error envelope
resolve_alert_request(als, alert_id) ==
    IF alert_id = 0 THEN [alerts |-> als, reply |-> "system"]
    ELSE IF alert_id \notin 1..Len(als)
    THEN [alerts |-> resolve_alert(als, alert_id), reply |-> "system"]
    ELSE [alerts |-> resolve_alert(als, alert_id), reply |-> "request_completed"]

\* connection c sends the request; the reply goes to c alone
ResolveAlertRequest(c, alert_id) ==
    LET r == resolve_alert_request(alerts, alert_id)
        o == send_personal_message(Registry, c)
    IN  /\ handler[c] = "open"
        /\ alerts' = r.alerts
        /\ last_eval' = [op |-> "resolve_alert", sensor_id |-> "none", value |-> 0,
                         user_id |-> conn_user[c], status |-> r.reply,
                         checked |-> FALSE, alert |-> alert_id]
        /\ SetRegistry(o.reg)
        /\ last_call' = [op |-> "resolve_alert", conn |-> c, user |-> conn_user[c],
                         group |-> "none", groups |-> <<>>,
                         known |-> InList(active_connections, c),
                         sent |-> o.sent, failed |-> o.failed]
        /\ UNCHANGED <<thresholds, prev_kind, last_thr, handler, conn_user, alive, ops,
                       endpoint, evaluating, sending, gen_vars>>

\* sensor s1 is a stream of owner 1, sensor s2 of owner 2
SensorOwner(s) == IF s = "s1" THEN 1 ELSE 2

\* readings of both owners are evaluated while clients resolve alerts
ResolveNext ==
    \/ \E s \in Sensors, v \in RaceValues : Evaluate(s, v, SensorOwner(s))
    \/ \E c \in Conns, id \in AlertIds : ResolveAlertRequest(c, id)

\* ------------------------------------------------------------------------
\* Threshold management (services/sensor.py, routes/sensors.py)
\* ------------------------------------------------------------------------
\* sensor.py:155-189
create_sensor_threshold(ths, sensor_type, min_value, max_value, unit, user_id) ==
    LET existing == FirstActiveThreshold(ths, sensor_type, unit)
        kept == IF existing # 0 THEN [ths EXCEPT ![existing].is_active = FALSE]
                ELSE ths
    IN  Append(kept, ThresholdRow(sensor_type, unit, min_value, max_value,
                                  TRUE, user_id))

\* an optional argument: <<>> when omitted (None), <<v>> when given
Given(arg, current) == IF arg = <<>> THEN current ELSE arg[1]

\* sensor.py:230-273; an unknown id raises 404 and changes nothing
update_sensor_threshold(ths, threshold_id, min_value, max_value, is_active) ==
    IF threshold_id \in 1..Len(ths) /\ ~ths[threshold_id].deleted
    THEN [ths EXCEPT ![threshold_id] =
            [@ EXCEPT !.min_value = Given(min_value, @),
                      !.max_value = Given(max_value, @),
                      !.is_active = Given(is_active, @)]]
    ELSE ths

\* the sensor types whose rows the table holds, in SENSOR_RANGES order; the
\* rows of the other types never meet them in a query
ThresholdTypes == {"temperature", "humidity"}

TrackedTypes == SelectSeq(SensorTypes, LAMBDA t : t \in ThresholdTypes)

\* a default that lies inside the generator's range by 10% of its width
DefaultThresholdNarrowed(sensor_type, user_id) ==
    LET range_data == SENSOR_RANGES[sensor_type]
        margin == (range_data.max - range_data.min) \div 10
    IN  ThresholdRow(sensor_type, range_data.unit, range_data.min + margin,
                     range_data.max - margin, TRUE, user_id)

\* routes.py:320-341: the generator's range widened by 10% of its width
DefaultThreshold(sensor_type, user_id) ==
    LET range_data == SENSOR_RANGES[sensor_type]
        margin == (range_data.max - range_data.min) \div 10
    IN  ThresholdRow(sensor_type, range_data.unit, range_data.min - margin,
                     range_data.max + margin, TRUE, user_id)

\* routes.py:320-341, 548-565: one default row per sensor type
CreateDefaults(ths, user_id) ==
    ths \o [k \in 1..Len(TrackedTypes) |-> DefaultThreshold(TrackedTypes[k], user_id)]

\* SensorAlertThreshold.filter(created_by_id=user_id): the ids
ThresholdsOf(ths, user_id) ==
    {i \in 1..Len(ths) : ~ths[i].deleted /\ ths[i].created_by = user_id}

\* the get_thresholds request (routes.py:304-342, 121-158): defaults are
\* created when the user has no active row
get_thresholds(ths, user_id) ==
    IF {i \in ThresholdsOf(ths, user_id) : ths[i].is_active} = {}
    THEN CreateDefaults(ths, user_id)
    ELSE ths

\* the save_thresholds request with one entry (routes.py:396-460); id 0 is
\* a missing id or "new"
save_thresholds(ths, user_id, entry) ==
    IF entry.id # 0
    THEN IF entry.id \in 1..Len(ths) /\ ~ths[entry.id].deleted
            /\ ths[entry.id].created_by = user_id
         THEN [ths EXCEPT ![entry.id] =
                 [@ EXCEPT !.min_value = entry.min, !.max_value = entry.max,
                           !.unit = entry.unit, !.is_active = entry.isActive]]
         ELSE ths
    ELSE Append(ths, ThresholdRow(entry.sensorType, entry.unit, entry.min,
                                  entry.max, entry.isActive, user_id))

\* the reset_thresholds request (routes.py:517-565): the user's rows are
\* deleted and the defaults are created again
reset_thresholds(ths, user_id) ==
    CreateDefaults([i \in 1..Len(ths) |->
                       IF i \in ThresholdsOf(ths, user_id)
                       THEN [ths[i] EXCEPT !.deleted = TRUE] ELSE ths[i]],
                   user_id)

\* the requests the managers send
ThresholdUpdates ==
    {[min_value |-> <<>>, max_value |-> <<>>, is_active |-> <<TRUE>>],
     [min_value |-> <<>>, max_value |-> <<>>, is_active |-> <<FALSE>>],
     [min_value |-> <<500>>, max_value |-> <<2500>>, is_active |-> <<>>]}

\* what last_thr records: the operation, the row it names, the requesting user
ThresholdOp(op, id, u) == [op |-> op, id |-> id, user_id |-> u]

\* POST /thresholds (routes/sensors.py:143-156)
CreateSensorThreshold(t, u) ==
    /\ Len(thresholds) < MaxThresholds
    /\ thresholds' = create_sensor_threshold(thresholds, t, 1000, 2000, UnitOf(t), u)
    /\ last_thr' = ThresholdOp("create_sensor_threshold", Len(thresholds'), u)
    /\ UNCHANGED <<alerts, last_eval, prev_kind, conn_vars, gen_vars>>

\* PATCH /thresholds/{threshold_id} (routes/sensors.py:174-190)
UpdateSensorThreshold(id, upd) ==
    /\ thresholds' = update_sensor_threshold(thresholds, id, upd.min_value,
                                             upd.max_value, upd.is_active)
    /\ last_thr' = ThresholdOp("update_sensor_threshold", id, NoUser)
    /\ UNCHANGED <<alerts, last_eval, prev_kind, conn_vars, gen_vars>>

\* the entries the clients send: a new row of a type, or the row they were
\* shown, with its type and unit, edited
NewEntries ==
    {[id |-> 0, sensorType |-> t, unit |-> UnitOf(t), min |-> 500, max |-> 2500,
      isActive |-> a] : t \in ThresholdTypes, a \in BOOLEAN}

EditedEntry(id, a) ==
    [id |-> id, sensorType |-> thresholds[id].sensor_type,
     unit |-> thresholds[id].unit, min |-> 500, max |-> 2500, isActive |-> a]

\* {type: request_data, target: get_thresholds} or ?special_request=get_thresholds
GetThresholds(u) ==
    /\ Len(get_thresholds(thresholds, u)) <= MaxThresholds
    /\ thresholds' = get_thresholds(thresholds, u)
    /\ last_thr' = ThresholdOp("get_thresholds", 0, u)
    /\ UNCHANGED <<alerts, last_eval, prev_kind, conn_vars, gen_vars>>

\* {type: request_data, target: save_thresholds} with a new entry
SaveNewThreshold(u, entry) ==
    /\ Len(thresholds) < MaxThresholds
    /\ thresholds' = save_thresholds(thresholds, u, entry)
    /\ last_thr' = ThresholdOp("save_thresholds", Len(thresholds'), u)
    /\ UNCHANGED <<alerts, last_eval, prev_kind, conn_vars, gen_vars>>

\* {type: request_data, target: save_thresholds} with an entry that has an id
SaveThreshold(u, id, a) ==
    /\ id \in 1..Len(thresholds)
    /\ thresholds' = save_thresholds(thresholds, u, EditedEntry(id, a))
    /\ last_thr' = ThresholdOp("save_thresholds", id, u)
    /\ UNCHANGED <<alerts, last_eval, prev_kind, conn_vars, gen_vars>>

\* {type: request_data, target: reset_thresholds}
ResetThresholds(u) ==
    /\ Len(reset_thresholds(thresholds, u)) <= MaxThresholds
    /\ thresholds' = reset_thresholds(thresholds, u)
    /\ last_thr' = ThresholdOp("reset_thresholds", 0, u)
    /\ UNCHANGED <<alerts, last_eval, prev_kind, conn_vars, gen_vars>>

ThresholdNext ==
    \/ \E t \in ThresholdTypes, u \in Users : CreateSensorThreshold(t, u)
    \/ \E id \in 1..MaxThresholds, upd \in ThresholdUpdates : UpdateSensorThreshold(id, upd)
    \/ \E u \in Users : GetThresholds(u)
    \/ \E u \in Users, entry \in NewEntries : SaveNewThreshold(u, entry)
    \/ \E u \in Users, id \in 1..MaxThresholds, a \in BOOLEAN : SaveThreshold(u, id, a)
    \/ \E u \in Users : ResetThresholds(u)

\* readings inside the generator's temperature range [15.00, 35.00]
OwnerReadings == {2000, 3000}

\* the owners' readings are evaluated while the owners send threshold requests
OwnersNext ==
    \/ \E s \in Sensors, v \in OwnerReadings : Evaluate(s, v, SensorOwner(s))
    \/ \E u \in Users : GetThresholds(u)
    \/ \E u \in Users, entry \in NewEntries : SaveNewThreshold(u, entry)
    \/ \E u \in Users : ResetThresholds(u)

\* ------------------------------------------------------------------------
\* Generator (services/sensor_simulator.py)
\* ------------------------------------------------------------------------
Hours == 0..23

\* 1000 * sin(hour * pi / 12)
SinTable == <<0, 259, 500, 707, 866, 966, 1000, 966, 866, 707, 500, 259,
              0, -259, -500, -707, -866, -966, -1000, -966, -866, -707, -500, -259>>

SinHour(hour) == SinTable[hour + 1]

PatternTypes == {"temperature", "humidity", "light"}

\* in hundredths of the unit
HOUR_PATTERNS(sensor_type, hour) ==
    CASE sensor_type = "temperature" -> (SinHour(hour) * 5) \div 10
      [] sensor_type = "humidity" -> 0 - SinHour(hour)
      [] sensor_type = "light" ->
            IF 6 <= hour /\ hour <= 18 THEN SinHour(hour) * 4000 ELSE 10000

Min2(a, b) == IF a <= b THEN a ELSE b

Max2(a, b) == IF a >= b THEN a ELSE b

Unclamped(lo, hi, v) == v

\* sensor_simulator.py:226
Clamp(lo, hi, v) == Max2(lo, Min2(hi, v))

HasStream(lsv, user_id, sensor_id, sensor_type) ==
    /\ user_id \in DOMAIN lsv
    /\ sensor_id \in DOMAIN lsv[user_id]
    /\ sensor_type \in DOMAIN lsv[user_id][sensor_id]

\* generate_sensor_value; change is the draw of random.uniform(-max_change,
\* max_change).  The store of line 229 raises KeyError when the user or the
\* sensor has no entry.
generate_sensor_value(lsv, user_id, sensor_id, sensor_type, hour, change) ==
    LET ranges == SENSOR_RANGES[sensor_type]
        prev_value == IF HasStream(lsv, user_id, sensor_id, sensor_type)
                      THEN lsv[user_id][sensor_id][sensor_type]
                      ELSE (ranges.min + ranges.max) \div 2
        total == IF sensor_type \in PatternTypes
                 THEN change + (HOUR_PATTERNS(sensor_type, hour) \div 20)
                 ELSE change
        raw == prev_value + total
        new_value == Clamp(ranges.min, ranges.max, raw)
        stored == user_id \in DOMAIN lsv /\ sensor_id \in DOMAIN lsv[user_id]
    IN  [values |-> IF stored
                    THEN DictPut(lsv, user_id,
                            DictPut(lsv[user_id], sensor_id,
                                DictPut(lsv[user_id][sensor_id], sensor_type, new_value)))
                    ELSE lsv,
         value |-> new_value,
         clamped |-> new_value # raw,
         raised |-> ~stored]

\* f"{user_id}_{sensor_type.value}_{i}"
SensorId(user_id, sensor_type, i) ==
    ToString(user_id) \o "_" \o sensor_type \o "_" \o ToString(i)

\* sensor_simulator.py:142-156: the (type, i) pairs the creation loop visits
RECURSIVE CreatedSensors(_, _, _, _, _)
CreatedSensors(k, sensors_created, remainder, sensors_per_type, total_sensors) ==
    IF k > Len(SensorTypes) \/ sensors_created >= total_sensors
    THEN <<>>
    ELSE LET extra == IF remainder > 0 THEN 1 ELSE 0
             current_type_count == Min2(sensors_per_type + extra,
                                        total_sensors - sensors_created)
         IN  [i \in 1..current_type_count |-> <<SensorTypes[k], i>>]
             \o CreatedSensors(k + 1, sensors_created + current_type_count,
                               remainder - extra, sensors_per_type, total_sensors)

\* sensor_simulator.py:136-138, with count_per_type = 2
NewSensors(total_sensors) ==
    LET sensors_per_type == Max2(1, Min2(2, total_sensors \div Len(SensorTypes)))
    IN  CreatedSensors(1, 0, total_sensors - sensors_per_type * Len(SensorTypes),
                       sensors_per_type, total_sensors)

\* random.uniform(min, max): the two ends and the middle
InitialDraws == {"min", "mid", "max"}

InitialValue(sensor_type, draw) ==
    LET ranges == SENSOR_RANGES[sensor_type]
    IN  CASE draw = "min" -> ranges.min
          [] draw = "max" -> ranges.max
          [] OTHER -> (ranges.min + ranges.max) \div 2

\* sensor_simulator.py:95-131 at recursion depth `depth`: a user whose
\* stored sensors do not match sensor_count is reset to {} and the function
\* calls itself; the user is still stored, so the call takes this branch
\* again, until the interpreter raises RecursionError
RECURSIVE StoredSensors(_, _, _, _)
StoredSensors(lsv, user_id, total_sensors, depth) ==
    IF Cardinality(DOMAIN lsv[user_id]) # total_sensors
    THEN IF depth >= RecursionLimit
         THEN [values |-> DictPut(lsv, user_id, EmptyDict), raised |-> TRUE]
         ELSE StoredSensors(DictPut(lsv, user_id, EmptyDict), user_id,
                            total_sensors, depth + 1)
    ELSE [values |-> lsv, raised |-> FALSE]

\* get_or_create_user_sensors; draws[j] is the initial draw of the j-th
\* created sensor
get_or_create_user_sensors(lsv, user_id, total_sensors, draws) ==
    IF user_id \in DOMAIN lsv
    THEN StoredSensors(lsv, user_id, total_sensors, 0)
    ELSE LET new == NewSensors(total_sensors)
             ids == {SensorId(user_id, new[j][1], new[j][2]) : j \in 1..Len(new)}
             at(sid) == CHOOSE j \in 1..Len(new) :
                            SensorId(user_id, new[j][1], new[j][2]) = sid
         IN  [values |-> DictPut(lsv, user_id,
                            [sid \in ids |->
                                DictPut(EmptyDict, new[at(sid)][1],
                                        InitialValue(new[at(sid)][1], draws[at(sid)]))]),
              raised |-> FALSE]

\* the users the simulator generates for
Owners == {1}

SensorCounts == 0..MaxSensorCount

\* random.uniform(-max_change, max_change): the two ends and no change
Changes(sensor_type) ==
    {0 - SENSOR_RANGES[sensor_type].max_change, 0, SENSOR_RANGES[sensor_type].max_change}

NoGen == [op |-> "none", sensor_type |-> "none", value |-> 0,
          clamped |-> FALSE, raised |-> FALSE]

NoRun == [op |-> "none", user_id |-> NoUser, check_thresholds |-> FALSE,
          raised |-> FALSE, messages |-> <<>>]

\* the scheduler task is not created
NoSim == [pc |-> "none", users |-> <<>>, must_cancel |-> FALSE,
          cancel_requested |-> FALSE, cancelled_at |-> "none",
          continued |-> FALSE, failed_owner |-> NoUser, resumed |-> FALSE]

GenInit ==
    /\ last_sensor_values = EmptyDict
    /\ sensor_count = [u \in Owners |-> 0]
    /\ gen_steps = 0
    /\ last_gen = NoGen
    /\ last_run = NoRun
    /\ sim = NoSim

\* the simulator starts with no streams; User.sensor_count is any small count
GenStart ==
    /\ last_sensor_values = EmptyDict
    /\ sensor_count \in [Owners -> SensorCounts]
    /\ gen_steps = 0
    /\ last_gen = NoGen
    /\ last_run = NoRun
    /\ sim = NoSim

\* sensor_simulator.py:250: the streams of the user are looked up or created
GetOrCreateUserSensors(u) ==
    \E draws \in [1..Len(NewSensors(sensor_count[u])) -> InitialDraws] :
        LET r == get_or_create_user_sensors(last_sensor_values, u, sensor_count[u], draws)
        IN  /\ last_sensor_values' = r.values
            /\ UNCHANGED <<sensor_count, gen_steps, last_gen, last_run, sim,
                           conn_vars, store_vars>>

\* sensor_simulator.py:288-290: one stream of the user advances at the hour
GenerateSensorValue(u, sensor_id, hour) ==
    /\ gen_steps < MaxGenSteps
    /\ u \in DOMAIN last_sensor_values
    /\ sensor_id \in DOMAIN last_sensor_values[u]
    /\ LET sensor_type == CHOOSE t \in DOMAIN last_sensor_values[u][sensor_id] : TRUE
       IN  \E change \in Changes(sensor_type) :
               LET r == generate_sensor_value(last_sensor_values, u, sensor_id,
                                              sensor_type, hour, change)
               IN  /\ last_sensor_values' = r.values
                   /\ last_gen' = [op |-> "generate_sensor_value",
                                   sensor_type |-> sensor_type, value |-> r.value,
                                   clamped |-> r.clamped, raised |-> r.raised]
    /\ gen_steps' = gen_steps + 1
    /\ UNCHANGED <<sensor_count, last_run, sim, conn_vars, store_vars>>

\* the sensor ids a user of the largest sensor_count gets
StreamIds ==
    LET new == NewSensors(MaxSensorCount)
    IN  {SensorId(u, new[j][1], new[j][2]) : u \in Owners, j \in 1..Len(new)}

GenNext ==
    \/ \E u \in Owners : GetOrCreateUserSensors(u)
    \/ \E u \in Owners, sensor_id \in StreamIds, hour \in Hours :
          GenerateSensorValue(u, sensor_id, hour)

\* ------------------------------------------------------------------------
\* Readings: generate_and_save_sensor_data and create_sensor_data
\* ------------------------------------------------------------------------
\* what a run works on: the streams, the alert table, the registry, and the
\* websocket messages it has broadcast (type and deliveries)
World(values, als, reg, messages) ==
    [values |-> values, alerts |-> als, reg |-> reg, messages |-> messages]

\* the fields of a sensor_data message (sensor.py:337-348) and of a
\* sensor_alert message (sensor.py:412-426) that the checks read; status is
\* the reading's status, or the alert's alert_type
Message(type, sensor_id, sensor_type, value, status) ==
    [type |-> type, sensor_id |-> sensor_id, sensor_type |-> sensor_type,
     value |-> value, status |-> status]

Broadcasted(w, m, o) ==
    World(w.values, w.alerts, o.reg,
          Append(w.messages, [type |-> m.type, sensor_id |-> m.sensor_id,
                              sensor_type |-> m.sensor_type, value |-> m.value,
                              status |-> m.status, sent |-> o.sent]))

\* the reading is broadcast with the status it was created with ("normal" in
\* a run without check_thresholds, sensor_simulator.py:296) and evaluated
\* afterwards
create_sensor_data_broadcast_first(w, ths, sensor_id, sensor_type, value, user_id) ==
    LET w0 == Broadcasted(w, Message("sensor_data", sensor_id, sensor_type, value, "normal"),
                          broadcast_sensor_data(w.reg, user_id))
        e == check_sensor_thresholds(ths, w0.alerts, sensor_id, sensor_type,
                                     value, user_id)
        w1 == World(w0.values, e.result.alerts, w0.reg, w0.messages)
    IN  IF e.result.alert # 0
        THEN Broadcasted(w1, Message("sensor_alert", sensor_id, sensor_type, value,
                                     w1.alerts[e.result.alert].alert_type),
                         broadcast_sensor_alert(w1.reg, user_id))
        ELSE w1

\* sensor.py:30-77: the reading is saved, evaluated (always), and broadcast
\* with the status the evaluation saved; the evaluation broadcasts the alert
\* it created (sensor.py:319-326)
create_sensor_data(w, ths, sensor_id, sensor_type, value, user_id) ==
    LET e == check_sensor_thresholds(ths, w.alerts, sensor_id, sensor_type,
                                     value, user_id)
        w1 == World(w.values, e.result.alerts, w.reg, w.messages)
        w2 == IF e.result.alert # 0
              THEN Broadcasted(w1, Message("sensor_alert", sensor_id, sensor_type, value,
                                           w1.alerts[e.result.alert].alert_type),
                               broadcast_sensor_alert(w1.reg, user_id))
              ELSE w1
    IN  Broadcasted(w2, Message("sensor_data", sensor_id, sensor_type, value, e.status),
                    broadcast_sensor_data(w2.reg, user_id))

\* the stored sensors of the user with their types, in creation order
UserSensorList(lsv, user_id) ==
    LET new == NewSensors(Cardinality(DOMAIN lsv[user_id]))
    IN  [j \in 1..Len(new) |-> <<SensorId(user_id, new[j][1], new[j][2]), new[j][1]>>]

\* sensor_simulator.py:262-344: one sensor after the other; changes[k] is
\* the k-th sensor's draw of random.uniform as a multiple of max_change.
\* check_thresholds only selects the status put in the returned list.
RECURSIVE SaveLoop(_, _, _, _, _, _, _)
SaveLoop(w, ths, user_id, sensors, k, hour, changes) ==
    IF k > Len(sensors) THEN w
    ELSE LET sensor_id == sensors[k][1]
             sensor_type == sensors[k][2]
             g == generate_sensor_value(w.values, user_id, sensor_id, sensor_type,
                      hour, changes[k] * SENSOR_RANGES[sensor_type].max_change)
             w1 == IF g.raised THEN w
                   ELSE create_sensor_data(
                            World(g.values, w.alerts, w.reg, w.messages),
                            ths, sensor_id, sensor_type, g.value, user_id)
         IN  SaveLoop(w1, ths, user_id, sensors, k + 1, hour, changes)

\* sensor_simulator.py:234-346
generate_and_save_sensor_data(w, ths, user_id, total_sensors, check_thresholds, hour, draws, changes) ==
    LET r == get_or_create_user_sensors(w.values, user_id, total_sensors, draws)
        w1 == World(r.values, w.alerts, w.reg, w.messages)
    IN  IF r.raised
        THEN [world |-> w1, raised |-> TRUE]
        ELSE [world |-> SaveLoop(w1, ths, user_id,
                                 UserSensorList(r.values, user_id), 1, hour, changes),
              raised |-> FALSE]

ChangeDraws == {-1, 0, 1}

\* a run for user u changes the streams, the alerts and the registry
RunFor(u, check_thresholds, run) ==
    /\ gen_steps < MaxGenSteps
    /\ Len(run.world.alerts) <= MaxAlerts
    /\ gen_steps' = gen_steps + 1
    /\ last_sensor_values' = run.world.values
    /\ alerts' = run.world.alerts
    /\ last_run' = [op |-> "generate_and_save_sensor_data", user_id |-> u,
                    check_thresholds |-> check_thresholds, raised |-> run.raised,
                    messages |-> run.world.messages]
    /\ UNCHANGED <<sensor_count, last_gen, thresholds, last_eval, prev_kind,
                   last_thr, handler, conn_user, alive, ops, endpoint,
                   evaluating, sending>>

\* routes.py:236-275: {type: request_data, target: sensor_data} on a
\* connection with an owner; manual defaults to true
RequestSensorData(c, manual, hour) ==
    /\ handler[c] = "open"
    /\ conn_user[c] # NoUser
    /\ conn_user[c] \in Owners
    /\ LET u == conn_user[c]
           n == Len(NewSensors(sensor_count[u]))
       IN  \E draws \in [1..n -> InitialDraws], changes \in [1..n -> ChangeDraws] :
              \E run \in {generate_and_save_sensor_data(
                              World(last_sensor_values, alerts, Registry, <<>>),
                              thresholds, u, sensor_count[u], ~manual, hour,
                              draws, changes)} :
                 \E o \in {send_personal_message(run.world.reg, c)} :
                    /\ RunFor(u, ~manual, run)
                    /\ SetRegistry(o.reg)
                    /\ UNCHANGED sim
                    /\ last_call' = [op |-> "request_data", conn |-> c,
                                     user |-> u, group |-> "none", groups |-> <<>>,
                                     known |-> InList(run.world.reg.active, c),
                                     sent |-> o.sent, failed |-> o.failed]

\* routes.py:243: `if user_id:` has no else; without an owner the message
\* runs nothing and sends nothing
RequestWithoutOwner(c) ==
    /\ handler[c] = "open"
    /\ conn_user[c] = NoUser
    /\ last_call' = [op |-> "request_data", conn |-> c, user |-> NoUser,
                     group |-> "none", groups |-> <<>>, known |-> InList(active_connections, c),
                     sent |-> <<>>, failed |-> <<>>]
    /\ UNCHANGED <<active_connections, group_connections, user_connections,
                   handler, conn_user, alive, ops, endpoint, evaluating,
                   sending, store_vars, gen_vars>>

\* connection 1 of owner 1 and connection 2 without owner are open
\* (routes.py:88-118)
OwnerConnected ==
    LET r == connect(connect([active |-> <<>>, groups |-> EmptyDict,
                              users |-> EmptyDict],
                             1, 1, EndpointGroups(<<>>, 1)),
                     2, NoUser, EndpointGroups(<<>>, NoUser))
    IN  /\ active_connections = r.active
        /\ group_connections = r.groups
        /\ user_connections = r.users
        /\ handler = [c \in Conns |-> IF c \in {1, 2} THEN "open" ELSE "new"]
        /\ conn_user = [c \in Conns |-> IF c = 1 THEN 1 ELSE NoUser]
        /\ alive = [c \in Conns |-> TRUE]
        /\ last_call = NoCall
        /\ ops = 0
        /\ endpoint = NoAttempt
        /\ NoTasks

\* the hours at which the requests of the model arrive
RequestHours == {0, 6, 12, 18}

DataNext ==
    \/ \E c \in Conns, manual \in BOOLEAN, hour \in RequestHours : RequestSensorData(c, manual, hour)
    \/ \E c \in Conns : RequestWithoutOwner(c)

\* ------------------------------------------------------------------------
\* The scheduler task: start_sensor_simulator, run_sensor_simulator, shutdown
\* ------------------------------------------------------------------------
\* the exceptions a step of the task can meet: an ordinary error (database,
\* KeyError, RecursionError) and the cancellation asyncio throws into a task
ExceptionClasses == {"Exception", "CancelledError", "WebSocketDisconnect"}

\* the classes an exception is an instance of; asyncio.CancelledError derives
\* from BaseException directly, WebSocketDisconnect from Exception
Bases(exc) ==
    CASE exc = "CancelledError" -> {"CancelledError", "BaseException"}
      [] exc = "WebSocketDisconnect" -> {"WebSocketDisconnect", "Exception", "BaseException"}
      [] OTHER -> {"Exception", "BaseException"}

\* a handler that lets every exception through
CaughtNothing(exc) == FALSE
\* sensor_simulator.py:365: `except Exception` around one owner
CaughtPerOwner(exc) == "Exception" \in Bases(exc)

\* a handler that catches every exception, like a bare `except:`
CaughtAnything(exc) == TRUE
\* sensor_simulator.py:374: `except Exception` around the whole tick
CaughtInTick(exc) == "Exception" \in Bases(exc)

\* User.all() of sensor_simulator.py:357, in id order
AllUsers == <<1, 2>>

\* sensor_simulator.py:359-372: after an owner, the next owner or the sleep
AfterOwner(users) == IF users = <<>> THEN "sleep" ELSE "owners"

\* where the task s is after exc is raised at its current await:
\* inside the owner's try (359-370), inside the tick's try (356-372), or in
\* the tick's handler (374-381), which no try protects
Raised(s, exc) ==
    CASE s.pc = "owners" /\ CaughtPerOwner(exc) ->
             [s EXCEPT !.pc = AfterOwner(Tail(s.users)), !.users = Tail(s.users),
                       !.failed_owner = Head(s.users)]
      [] s.pc \in {"enumerate", "owners", "sleep"} /\ CaughtInTick(exc)
           /\ ~(s.pc = "owners" /\ CaughtPerOwner(exc)) ->
             [s EXCEPT !.pc = "error_sleep", !.users = <<>>]
      [] OTHER -> [s EXCEPT !.pc = "done", !.users = <<>>]

\* a step of the loop is taken; continued records one taken after shutdown
\* asked for the cancellation
Stepped(s) == [s EXCEPT !.continued = s.cancel_requested]

\* the first draw of every new stream of a run of the scheduler
SchedulerDraws(total_sensors, d) == [j \in 1..Len(NewSensors(total_sensors)) |-> d]

\* the scheduler's runs happen at one hour and draw no change
SchedulerHour == 12

SchedulerChanges(total_sensors) == [j \in 1..Len(NewSensors(total_sensors)) |-> 0]

\* generate_and_save_sensor_data(user.id, check_thresholds=True) for owner u
SchedulerRun(u, d) ==
    \E run \in {generate_and_save_sensor_data(
                    World(last_sensor_values, alerts, Registry, <<>>),
                    thresholds, u, sensor_count[u], TRUE, SchedulerHour,
                    SchedulerDraws(sensor_count[u], d),
                    SchedulerChanges(sensor_count[u]))} :
       /\ RunFor(u, TRUE, run)
       /\ SetRegistry(run.world.reg)
       /\ UNCHANGED last_call

\* sensor_simulator.py:357-364: a tick of run_sensor_simulator for owner u
\* at the given hour; every new stream starts at draw d and every stream
\* draws the change ch
GeneratorTick(u, hour, d, ch) ==
    LET n == Len(NewSensors(sensor_count[u]))
    IN  \E run \in {generate_and_save_sensor_data(
                        World(last_sensor_values, alerts, Registry, <<>>),
                        thresholds, u, sensor_count[u], TRUE, hour,
                        SchedulerDraws(sensor_count[u], d), [j \in 1..n |-> ch])} :
           /\ RunFor(u, TRUE, run)
           /\ SetRegistry(run.world.reg)
           /\ UNCHANGED <<last_call, sim>>

\* the hours of the warmest and the coldest HOUR_PATTERNS offset
TickHours == {6, 18}

\* the new rows that are saved as active
ActiveEntries == {entry \in NewEntries : entry.isActive}

\* the generator ticks while the owner requests, saves and resets thresholds
DefaultsNext ==
    \/ \E u \in Owners, hour \in TickHours, d \in InitialDraws, ch \in {-1, 1} :
          GeneratorTick(u, hour, d, ch)
    \/ \E u \in Owners : GetThresholds(u)
    \/ \E u \in Owners, entry \in ActiveEntries : SaveNewThreshold(u, entry)
    \/ \E u \in Owners : ResetThresholds(u)

\* an owner's processing raises before it saves anything
NothingSaved ==
    UNCHANGED <<last_sensor_values, sensor_count, gen_steps, last_gen, last_run,
                conn_vars, store_vars>>

\* sensor_simulator.py:393-400: initial data for one user; an exception ends
\* the initial generation, and the task is created either way (403)
StartupOwner(d, fails) ==
    /\ sim.pc = "startup"
    /\ IF sim.users = <<>>
       THEN /\ sim' = [sim EXCEPT !.pc = "enumerate"]
            /\ NothingSaved
       ELSE IF fails
       THEN /\ sim' = [sim EXCEPT !.pc = "enumerate", !.users = <<>>]
            /\ NothingSaved
       ELSE /\ SchedulerRun(Head(sim.users), d)
            /\ sim' = [sim EXCEPT !.users = Tail(sim.users)]

\* sensor_simulator.py:357: users = await User.all()
Enumerate(fails) ==
    /\ sim.pc = "enumerate"
    /\ ~sim.must_cancel
    /\ sim' = IF fails
              THEN Raised(Stepped(sim), "Exception")
              ELSE [Stepped(sim) EXCEPT !.pc = AfterOwner(AllUsers),
                                        !.users = AllUsers,
                                        !.failed_owner = NoUser]
    /\ NothingSaved

\* sensor_simulator.py:359-370: the next owner of the tick
ProcessOwner(d, fails) ==
    /\ sim.pc = "owners"
    /\ ~sim.must_cancel
    /\ IF fails
       THEN /\ sim' = Raised(Stepped(sim), "Exception")
            /\ NothingSaved
       ELSE /\ SchedulerRun(Head(sim.users), d)
            /\ sim' = [Stepped(sim) EXCEPT !.pc = AfterOwner(Tail(sim.users)),
                                           !.users = Tail(sim.users)]

\* sensor_simulator.py:372, 381: asyncio.sleep(300) returns, `while True`
\* starts the next tick
Wake ==
    /\ sim.pc \in {"sleep", "error_sleep"}
    /\ ~sim.must_cancel
    /\ sim' = [Stepped(sim) EXCEPT
                  !.pc = "enumerate",
                  !.resumed = @ \/ sim.pc = "error_sleep" \/ sim.failed_owner # NoUser]
    /\ NothingSaved

\* main.py:193-196: shutdown_event cancels the task once
Shutdown ==
    /\ sim.pc \notin {"none", "startup", "done"}
    /\ ~sim.cancel_requested
    /\ sim' = [sim EXCEPT !.must_cancel = TRUE, !.cancel_requested = TRUE]
    /\ NothingSaved

\* the event loop throws CancelledError into the task at the await it is
\* suspended in
Cancelled ==
    /\ sim.must_cancel
    /\ sim.pc # "done"
    /\ sim' = [Raised(sim, "CancelledError") EXCEPT !.must_cancel = FALSE,
                                                    !.cancelled_at = sim.pc]
    /\ NothingSaved

\* start_sensor_simulator is entered at startup (main.py:177-179)
SimStart ==
    /\ last_sensor_values = EmptyDict
    /\ sensor_count \in [Users -> SensorCounts]
    /\ gen_steps = 0
    /\ last_gen = NoGen
    /\ last_run = NoRun
    /\ sim = [NoSim EXCEPT !.pc = "startup", !.users = AllUsers]

SimNext ==
    \/ \E d \in InitialDraws, fails \in BOOLEAN : StartupOwner(d, fails)
    \/ \E fails \in BOOLEAN : Enumerate(fails)
    \/ \E d \in InitialDraws, fails \in BOOLEAN : ProcessOwner(d, fails)
    \/ Wake
    \/ Shutdown
    \/ Cancelled

\* ------------------------------------------------------------------------
\* Stream sets under a changing sensor_count
\* ------------------------------------------------------------------------
\* new users get 0, demo users 10, admins 20, a registration request any
\* count (services/auth.py:97-106)
StreamCounts == 0..MaxStreamCount

\* User.sensor_count of user u is set to n (main.py:83-86, 145-149)
SetSensorCount(u, n) ==
    /\ sensor_count[u] # n
    /\ sensor_count' = [sensor_count EXCEPT ![u] = n]
    /\ last_gen' = NoGen
    /\ UNCHANGED <<last_sensor_values, gen_steps, last_run, sim, conn_vars, store_vars>>

\* the number of stored streams of user u that have a type
\* (sensor_simulator.py:96-124)
StoredCount(lsv, u) == Cardinality({sid \in DOMAIN lsv[u] : DOMAIN lsv[u][sid] # {}})

\* which branch a get_or_create_user_sensors call for u takes
Branch(lsv, u, n) ==
    IF u \notin DOMAIN lsv THEN "create"
    ELSE IF StoredCount(lsv, u) # n THEN "recreate" ELSE "lookup"

\* get_or_create_user_sensors(u) is called; every new stream draws d.
\* last_gen records the branch, whether the call raised, and the number of
\* streams stored afterwards.
LookUpSensors(u, d) ==
    LET n == sensor_count[u]
        r == get_or_create_user_sensors(last_sensor_values, u, n, SchedulerDraws(n, d))
    IN  /\ last_sensor_values' = r.values
        /\ last_gen' = [op |-> Branch(last_sensor_values, u, n), sensor_type |-> "none",
                        value |-> StoredCount(r.values, u),
                        clamped |-> FALSE, raised |-> r.raised]
        /\ UNCHANGED <<sensor_count, gen_steps, last_run, sim, conn_vars, store_vars>>

\* the types and stream numbers generate_sensor_value is called with for a
\* key that has no last value; stream 4 of a type is never created
UnseenTypes == {"temperature"}
UnseenStreams == {1, 4}

\* generate_sensor_value is called for a key with no stored last value
GenerateUnseen(u, sensor_type, i, hour, change) ==
    LET sensor_id == SensorId(u, sensor_type, i)
        r == generate_sensor_value(last_sensor_values, u, sensor_id, sensor_type,
                                   hour, change)
    IN  /\ ~HasStream(last_sensor_values, u, sensor_id, sensor_type)
        /\ last_sensor_values' = r.values
        /\ last_gen' = [op |-> "generate_sensor_value", sensor_type |-> sensor_type,
                        value |-> r.value, clamped |-> r.clamped, raised |-> r.raised]
        /\ UNCHANGED <<sensor_count, gen_steps, last_run, sim, conn_vars, store_vars>>

StreamNext ==
    \/ \E u \in Owners, n \in StreamCounts : SetSensorCount(u, n)
    \/ \E u \in Owners, d \in InitialDraws : LookUpSensors(u, d)
    \/ \E u \in Owners, t \in UnseenTypes, i \in UnseenStreams, hour \in RequestHours :
          \E change \in Changes(t) : GenerateUnseen(u, t, i, hour, change)

\* ------------------------------------------------------------------------
\* websocket_endpoint: authentication, read loop, handlers of its exceptions
\* ------------------------------------------------------------------------
\* the User table: users 1 and 2 are active, user 3 is inactive, and there
\* is no user 4
InactiveUser == 3
MissingUser == 4

UserRows == [u \in Users \cup {InactiveUser} |-> [is_active |-> u \in Users]]

\* starlette.status.WS_1008_POLICY_VIOLATION
WS_1008_POLICY_VIOLATION == 1008

\* the ?token= values: none (or empty), one that validate_token refuses, and
\* well-signed ones whose subject is an active, an inactive or a missing user
Tokens ==
    {NoToken, [kind |-> "invalid", sub |-> NoUser]}
    \cup {[kind |-> "valid", sub |-> u] : u \in {1, InactiveUser, MissingUser}}

\* the ?user_id= values; NoUser is an absent parameter
ExplicitIds == {NoUser, 1, 2, InactiveUser}

\* the ?groups= values: absent, a group of the client's choice, sensor:all
QueryGroups == {<<>>, <<TypeGroup>>, <<SensorAllGroup>>}

\* a check that lets every id pass
AnyUserAccepted(id) == TRUE
\* routes.py:51-53, 80-82: User.get_or_none(id) is a row and it is active
UserAccepted(id) == id \in DOMAIN UserRows /\ UserRows[id].is_active

\* routes.py:44-86: the owner the endpoint resolves, or the refusal.  The
\* settings (core/config.py:12-16) are not consulted.
Authenticate(token, user_id) ==
    IF token.kind # "none"
    THEN IF token.kind = "invalid" \/ ~UserAccepted(token.sub)
         THEN [ok |-> FALSE, user_id |-> NoUser]
         ELSE [ok |-> TRUE, user_id |-> token.sub]
    ELSE IF user_id # NoUser
         THEN IF ~UserAccepted(user_id)
              THEN [ok |-> FALSE, user_id |-> NoUser]
              ELSE [ok |-> TRUE, user_id |-> user_id]
         ELSE [ok |-> TRUE, user_id |-> NoUser]

\* routes.py:25-118: one connection attempt up to the welcome message
Attempt(c, token, user_id, gs) ==
    /\ handler[c] = "new"
    /\ \A d \in Conns : d < c => handler[d] # "new"
    /\ ops < MaxOps
    /\ ops' = ops + 1
    /\ endpoint' = [endpoint EXCEPT !.conn = c, !.token = token, !.user_id = user_id,
                        !.code = IF Authenticate(token, user_id).ok THEN 0
                                 ELSE WS_1008_POLICY_VIOLATION]
    /\ \E a \in {Authenticate(token, user_id)} :
          IF a.ok
          THEN \E o \in {send_personal_message(
                             connect(Registry, c, a.user_id,
                                     EndpointGroups(gs, a.user_id)), c)} :
                  /\ handler' = [handler EXCEPT ![c] = "open"]
                  /\ conn_user' = [conn_user EXCEPT ![c] = a.user_id]
                  /\ SetRegistry(o.reg)
                  /\ last_call' = [op |-> "connect", conn |-> c, user |-> a.user_id,
                                   group |-> "none", groups |-> <<>>, known |-> FALSE,
                                   sent |-> o.sent, failed |-> o.failed]
          ELSE /\ handler' = [handler EXCEPT ![c] = "rejected"]
               /\ last_call' = [NoCall EXCEPT !.op = "close", !.conn = c]
               /\ UNCHANGED <<active_connections, group_connections,
                              user_connections, conn_user>>
    /\ UNCHANGED <<alive, evaluating, sending, store_vars, gen_vars>>

\* what the client sends next, or that the transport closes
Inbound == {"close", "undecodable", "not_an_object", "unknown_type", "echo",
            "subscribe_without_groups"}

\* routes.py:189-196: receive_json raises WebSocketDisconnect on a close and
\* JSONDecodeError on text that is not JSON; data.get raises AttributeError
\* when the JSON value is not an object
RaisedBy(msg) ==
    CASE msg = "close" -> "WebSocketDisconnect"
      [] msg \in {"undecodable", "not_an_object"} -> "Exception"
      [] OTHER -> "none"

\* routes.py:198-772: of these messages only type "echo" has a branch that
\* replies; the other types and a subscribe whose data has no groups list
\* fall through every branch
Answered(msg) == msg = "echo"

\* handlers that disconnect on WebSocketDisconnect only
DisconnectOnCloseOnly(r, ws, exc) ==
    IF exc = "WebSocketDisconnect" THEN disconnect(r, ws) ELSE r
\* routes.py:777-785: both handlers of the endpoint disconnect
OnLoopExit(r, ws, exc) ==
    IF "WebSocketDisconnect" \in Bases(exc) THEN disconnect(r, ws)
    ELSE IF "Exception" \in Bases(exc) THEN disconnect(r, ws)
    ELSE r

\* routes.py:186-785: one turn of the read loop on message msg
Receive(c, msg) ==
    /\ handler[c] = "open"
    /\ msg # "close" => alive[c]
    /\ ops < MaxOps
    /\ ops' = ops + 1
    /\ IF RaisedBy(msg) # "none"
       THEN /\ handler' = [handler EXCEPT ![c] = "closed"]
            /\ conn_user' = [conn_user EXCEPT ![c] = NoUser]
            /\ alive' = [alive EXCEPT ![c] = FALSE]
            /\ SetRegistry(OnLoopExit(Registry, c, RaisedBy(msg)))
            /\ last_call' = [op |-> msg, conn |-> c, user |-> conn_user[c],
                             group |-> "none", groups |-> <<>>,
                             known |-> InList(active_connections, c),
                             sent |-> <<>>, failed |-> <<>>]
       ELSE /\ \E o \in {IF Answered(msg) THEN send_personal_message(Registry, c)
                           ELSE Outcome(Registry, <<>>, <<>>)} :
                  /\ SetRegistry(o.reg)
                  /\ last_call' = [op |-> msg, conn |-> c, user |-> conn_user[c],
                                   group |-> "none", groups |-> <<>>,
                                   known |-> InList(active_connections, c),
                                   sent |-> o.sent, failed |-> o.failed]
            /\ UNCHANGED <<handler, conn_user, alive>>
    /\ UNCHANGED <<endpoint, evaluating, sending, store_vars, gen_vars>>

\* the process runs with the development or the production settings
EndpointInit ==
    /\ active_connections = <<>>
    /\ group_connections = EmptyDict
    /\ user_connections = EmptyDict
    /\ handler = [c \in Conns |-> "new"]
    /\ conn_user = [c \in Conns |-> NoUser]
    /\ alive = [c \in Conns |-> TRUE]
    /\ last_call = NoCall
    /\ ops = 0
    /\ endpoint \in {[NoAttempt EXCEPT !.production = p] : p \in BOOLEAN}
    /\ NoTasks

EndpointNext ==
    \/ \E c \in Conns, token \in Tokens, user_id \in ExplicitIds, gs \in QueryGroups :
          Attempt(c, token, user_id, gs)
    \/ \E c \in Conns, msg \in Inbound : Receive(c, msg)
    \/ \E c \in Conns : Break(c)

\* ------------------------------------------------------------------------
\* Group commands of open connections
\* ------------------------------------------------------------------------
\* the group names of the subscribe and unsubscribe messages of the model
CommandGroups == {SensorAllGroup, TypeGroup, UserGroup(1)}

\* data.groups: no, one or two names, a name possibly twice
CommandLists ==
    {<<>>} \cup {<<g>> : g \in CommandGroups}
           \cup {<<g, h>> : g \in CommandGroups, h \in CommandGroups}

\* connection_manager.py:111-129, called on any connection and group
RemoveFromGroup(c, g) ==
    /\ Call("remove_from_group", c, conn_user[c], g,
            Outcome(remove_from_group(Registry, c, g), <<>>, <<>>))
    /\ UNCHANGED <<handler, conn_user, alive>>

GroupNext ==
    \/ \E c \in Conns, gs \in CommandLists : Subscribe(c, gs)
    \/ \E c \in Conns, gs \in CommandLists : Unsubscribe(c, gs)
    \/ \E c \in Conns, g \in ClientGroups : RemoveFromGroup(c, g)
    \/ \E g \in ClientGroups : BroadcastToGroup(g)
    \/ \E c \in Conns : Break(c)

\* ------------------------------------------------------------------------
\* A fan-out that is suspended inside its sends
\* ------------------------------------------------------------------------
\* "owner_loop" is the loop over manager.user_connections.get(user_id, []) of
\* broadcast_sensor_data and broadcast_sensor_alert
FanOutKinds == {"broadcast_to_group", "broadcast", "send_to_user", "owner_loop"}

FanOutGroups == {SensorAllGroup, UserGroup(1)}

\* the connections registered under the key of fan-out f
Members(r, f) ==
    CASE f.op = "broadcast_to_group" -> DictGet(r.groups, f.group, <<>>)
      [] f.op = "broadcast" -> r.active
      [] OTHER -> DictGet(r.users, f.user, <<>>)

\* the list the loop of f walks: the copy taken at the start ("[:]"), or for
\* the owner loop the registry's own list as it is now
Iterated(r, f) == IF f.op = "owner_loop" THEN Members(r, f) ELSE f.snapshot

\* the fan-out starts and suspends inside its first send; with nothing to
\* send to it returns at once (broadcast_to_group creates the missing group)
StartFanOut(op, g, u) ==
    LET f == [NoFanOut EXCEPT !.op = op,
                              !.group = IF op = "broadcast_to_group" THEN g ELSE "none",
                              !.user = IF op \in {"send_to_user", "owner_loop"} THEN u
                                       ELSE NoUser]
        lst == Members(Registry, f)
    IN  /\ sending.pc # "send"
        /\ IF lst = <<>>
           THEN /\ sending' = [f EXCEPT !.pc = "done"]
                /\ SetRegistry(IF op = "broadcast_to_group"
                               THEN broadcast_to_group(Registry, g).reg ELSE Registry)
           ELSE /\ sending' = [f EXCEPT !.pc = "send", !.i = 1, !.cur = lst[1],
                                        !.snapshot = IF op = "owner_loop" THEN <<>> ELSE lst,
                                        !.stayed = Range(lst)]
                /\ UNCHANGED <<active_connections, group_connections, user_connections>>
        /\ UNCHANGED <<handler, conn_user, alive, last_call, ops, endpoint, evaluating,
                       store_vars, gen_vars>>

\* the send to sending.cur returns or raises and the loop goes on to its next
\* element.  send_to_user and send_personal_message disconnect a failing
\* connection at once, broadcast and broadcast_to_group after the loop.
SendReturns ==
    LET f == sending
        ok == alive[f.cur]
        now == f.op \in {"send_to_user", "owner_loop"}
        r1 == IF ~ok /\ now THEN disconnect(Registry, f.cur) ELSE Registry
        f1 == [f EXCEPT !.sent = IF ok THEN Append(@, f.cur) ELSE @,
                        !.disconnected = IF ok THEN @ ELSE Append(@, f.cur),
                        !.i = f.i + 1]
        lst == Iterated(r1, f1)
    IN  /\ f.pc = "send"
        /\ IF f1.i <= Len(lst)
           THEN /\ sending' = [f1 EXCEPT !.cur = lst[f1.i]]
                /\ SetRegistry(r1)
                /\ UNCHANGED last_call
           ELSE /\ sending' = [f1 EXCEPT !.pc = "done"]
                /\ SetRegistry(IF now THEN r1 ELSE DisconnectAll(r1, f1.disconnected))
                /\ last_call' = [op |-> f.op, conn |-> 0, user |-> f.user,
                                 group |-> f.group, groups |-> <<>>, known |-> FALSE,
                                 sent |-> f1.sent, failed |-> f1.disconnected]
        /\ UNCHANGED <<handler, conn_user, alive, ops, endpoint, evaluating,
                       store_vars, gen_vars>>

\* another task changes the registry to r: a connection that is no longer
\* registered under the fan-out's key has not stayed for the whole call
Meanwhile(r) ==
    /\ SetRegistry(r)
    /\ sending' = [sending EXCEPT !.stayed = @ \cap Range(Members(r, sending))]
    /\ UNCHANGED <<last_call, ops, endpoint, evaluating, store_vars, gen_vars>>

\* routes.py:206-220: the handler of connection c joins it to group g
Joins(c, g) ==
    /\ handler[c] = "open"
    /\ Meanwhile(add_to_group(Registry, c, g))
    /\ UNCHANGED <<handler, conn_user, alive>>

\* routes.py:222-234: the handler of connection c takes it out of group g
Leaves(c, g) ==
    /\ handler[c] = "open"
    /\ Meanwhile(remove_from_group(Registry, c, g))
    /\ UNCHANGED <<handler, conn_user, alive>>

\* routes.py:777-785: the client of connection c went away and its handler
\* disconnects it
Disconnects(c) ==
    /\ handler[c] = "open"
    /\ handler' = [handler EXCEPT ![c] = "closed"]
    /\ conn_user' = [conn_user EXCEPT ![c] = NoUser]
    /\ alive' = [alive EXCEPT ![c] = FALSE]
    /\ Meanwhile(disconnect(Registry, c))

\* owner 1 holds every connection
OwnerConnectedTwice ==
    LET RECURSIVE ConnectAll(_, _)
        ConnectAll(r, c) ==
            IF c > NumConns THEN r
            ELSE ConnectAll(connect(r, c, 1, EndpointGroups(<<>>, 1)), c + 1)
        r == ConnectAll([active |-> <<>>, groups |-> EmptyDict, users |-> EmptyDict], 1)
    IN  /\ active_connections = r.active
        /\ group_connections = r.groups
        /\ user_connections = r.users
        /\ handler = [c \in Conns |-> "open"]
        /\ conn_user = [c \in Conns |-> 1]
        /\ alive = [c \in Conns |-> TRUE]
        /\ last_call = NoCall
        /\ ops = 0
        /\ endpoint = NoAttempt
        /\ NoTasks

FanOutNext ==
    \/ \E op \in FanOutKinds, g \in FanOutGroups : StartFanOut(op, g, 1)
    \/ SendReturns
    \/ \E c \in Conns, g \in FanOutGroups : Joins(c, g)
    \/ \E c \in Conns, g \in FanOutGroups : Leaves(c, g)
    \/ \E c \in Conns : Disconnects(c)
    \/ \E c \in Conns : Break(c)

\* ------------------------------------------------------------------------
\* Specifications
\* ------------------------------------------------------------------------
InitConn == ConnInit /\ StoreInit /\ GenInit

SpecConn ==
    /\ InitConn
    /\ [][ConnNext]_vars

\* PATCH requests that switch the threshold on or off
ThresholdSwitches == {upd \in ThresholdUpdates : upd.is_active # <<>>}

\* readings are evaluated while a manager switches the threshold off and on
AlertNext ==
    \/ \E s \in Sensors, v \in Values, u \in {NoUser, 1} : Evaluate(s, v, u)
    \/ \E upd \in ThresholdSwitches : UpdateSensorThreshold(1, upd)

InitAlert == ConnInit /\ AlertInit /\ GenInit

SpecAlert ==
    /\ InitAlert
    /\ [][AlertNext]_vars

InitThreshold == ConnInit /\ StoreInit /\ GenInit

SpecThreshold ==
    /\ InitThreshold
    /\ [][ThresholdNext]_vars

InitData == OwnerConnected /\ AlertInit /\ GenStart

SpecData ==
    /\ InitData
    /\ [][DataNext]_vars

InitSim == OwnerConnected /\ AlertInit /\ SimStart

SpecSim ==
    /\ InitSim
    /\ [][SimNext]_vars

\* the event loop runs a task that has a cancellation to receive
SpecSimFair ==
    /\ SpecSim
    /\ WF_vars(Cancelled)

InitEndpoint == EndpointInit /\ StoreInit /\ GenInit

SpecEndpoint ==
    /\ InitEndpoint
    /\ [][EndpointNext]_vars

\* both tasks are idle; the threshold of the sensors' type is active and no
\* alert exists
InitRace ==
    /\ ConnInit
    /\ thresholds = <<ExampleThreshold>>
    /\ alerts = <<>>
    /\ last_eval = NoEval
    /\ prev_kind = [s \in Sensors |-> "none"]
    /\ last_thr = NoThresholdOp
    /\ GenInit

SpecRace ==
    /\ InitRace
    /\ [][RaceNext]_vars

\* connection 1 of owner 1 and a connection without owner are open; the
\* threshold of the sensors' type is active and no alert exists
InitResolve ==
    /\ OwnerConnected
    /\ thresholds = <<ExampleThreshold>>
    /\ alerts = <<>>
    /\ last_eval = NoEval
    /\ prev_kind = [s \in Sensors |-> "none"]
    /\ last_thr = NoThresholdOp
    /\ GenInit

SpecResolve ==
    /\ InitResolve
    /\ [][ResolveNext]_vars

InitFanOut == OwnerConnectedTwice /\ StoreInit /\ GenInit

SpecFanOut ==
    /\ InitFanOut
    /\ [][FanOutNext]_vars

InitOwners == ConnInit /\ StoreInit /\ GenInit

SpecOwners ==
    /\ InitOwners
    /\ [][OwnersNext]_vars

InitDefaults == OwnerConnected /\ StoreInit /\ GenStart

SpecDefaults ==
    /\ InitDefaults
    /\ [][DefaultsNext]_vars

InitGroups == OwnerConnected /\ StoreInit /\ GenInit

SpecGroups ==
    /\ InitGroups
    /\ [][GroupNext]_vars

\* no streams are stored; User.sensor_count is any count up to MaxStreamCount
InitStreams ==
    /\ ConnInit
    /\ StoreInit
    /\ last_sensor_values = EmptyDict
    /\ sensor_count \in [Owners -> StreamCounts]
    /\ gen_steps = 0
    /\ last_gen = NoGen
    /\ last_run = NoRun
    /\ sim = NoSim

SpecStreams ==
    /\ InitStreams
    /\ [][StreamNext]_vars

InitGen == ConnInit /\ StoreInit /\ GenStart

SpecGen ==
    /\ InitGen
    /\ [][GenNext]_vars

\* ------------------------------------------------------------------------
\* Properties of the connection registry and the fan-out
\* ------------------------------------------------------------------------
Keys(d, c) == {k \in DOMAIN d : InList(d[k], c)}

Absent(r, c) == ~InList(r.active, c) /\ Keys(r.groups, c) = {} /\ Keys(r.users, c) = {}

Memberships(r, c) ==
    [active |-> InList(r.active, c),
     groups |-> Keys(r.groups, c),
     users  |-> Keys(r.users, c)]

OwnerTagged == last_call.op \in {"sensor_data", "sensor_alert"} /\ last_call.user # NoUser

\* C5: a sensor_data or sensor_alert message tagged with owner A is sent only
\* to connections that were established for owner A.
C5_BroadcastIsolation ==
    OwnerTagged => \A c \in Range(last_call.sent) : conn_user[c] = last_call.user

FanOutOps == {"broadcast_to_group", "broadcast", "send_to_user"}

\* the recipients of a fan-out operation, read from registry r
Recipients(r, call) ==
    CASE call.op = "broadcast_to_group" -> DictGet(r.groups, call.group, <<>>)
      [] call.op = "broadcast" -> r.active
      [] call.op = "send_to_user" -> DictGet(r.users, call.user, <<>>)
      [] OTHER -> <<>>

\* C6: in broadcast_to_group, broadcast and send_to_user every recipient that
\* was a member when the call started and whose send does not fail is sent the
\* message, also when the send to another recipient fails; a recipient whose
\* send fails is not a member of the group (owner list, catch-all list) after
\* the call.
C6_PartialFailureFanOut ==
    [][(ops' = ops + 1 /\ last_call'.op \in FanOutOps) =>
          \A c \in Range(Recipients(Registry, last_call')) :
              /\ alive[c] => InList(last_call'.sent, c)
              /\ ~alive[c] => /\ InList(last_call'.failed, c)
                              /\ ~InList(Recipients(Registry', last_call'), c)]_vars

C6_Witness ==
    /\ last_call.op = "broadcast_to_group"
    /\ Len(last_call.failed) = 1
    /\ Len(last_call.sent) >= 1
    /\ last_call.group \notin DOMAIN group_connections
           \/ ~InList(group_connections[last_call.group], last_call.failed[1])

\* C7: after any sending operation returns, every connection whose send
\* failed in it is absent from active_connections, from every group and from
\* every owner list.
C7_FailedSendRemoved ==
    \A c \in Range(last_call.failed) : Absent(Registry, c)

C7_Witness ==
    /\ last_call.op = "send_personal_message"
    /\ last_call.known
    /\ last_call.failed = <<last_call.conn>>
    /\ Absent(Registry, last_call.conn)

\* the registry r1 is the registry r after disconnect(c)
DisconnectedOnce(r, r1, c) ==
    /\ Absent(r1, c)
    /\ \A d \in Conns \ {c} : Memberships(r1, d) = Memberships(r, d)
    /\ Absent(r, c) => r1 = r
    /\ disconnect(r1, c) = r1
    /\ \A d \in Conns : handler[d] = "new" => disconnect(r1, d) = r1

\* C8: disconnect is idempotent.  Each call disconnect(c) leaves c in no
\* group, no owner list and not in active_connections, and leaves the
\* memberships of every other connection unchanged; a call for a connection
\* that an earlier call has already removed changes nothing, a further call
\* would change nothing either, and so would a call for a connection that
\* was never registered.
C8_DisconnectIdempotent ==
    [][(ops' = ops + 1 /\ last_call'.op = "disconnect") =>
          DisconnectedOnce(Registry, Registry', last_call'.conn)]_vars

\* the handler's own disconnect ran on a connection that a failed send had
\* already disconnected
C8_Witness ==
    /\ last_call.op = "disconnect"
    /\ ~last_call.known
    /\ handler[last_call.conn] = "closed"
    /\ Absent(Registry, last_call.conn)

\* ------------------------------------------------------------------------
\* Properties of the alert state machine
\* ------------------------------------------------------------------------
ActiveAlerts(als, sensor_id) ==
    {i \in 1..Len(als) : als[i].sensor_id = sensor_id /\ als[i].is_active}

Resolved(als, a) == ~als[a].is_active /\ als[a].resolved_at = "now"

\* the step is a run of check_sensor_thresholds
Evaluates ==
    /\ last_eval'.op = "check_sensor_thresholds"
    /\ UNCHANGED <<thresholds, last_thr>>

\* the step is an evaluation by check_sensor_value_against_threshold
Checked == Evaluates /\ last_eval'.checked

\* the step created exactly one alert, of the given kind, for the sensor
EmitsOne(sensor_id, kind) ==
    /\ Len(alerts') = Len(alerts) + 1
    /\ last_eval'.alert = Len(alerts')
    /\ alerts'[Len(alerts')].sensor_id = sensor_id
    /\ alerts'[Len(alerts')].alert_type = kind

EmitsNone == Len(alerts') = Len(alerts) /\ last_eval'.alert = 0

Opposite(kind) == IF kind = "high" THEN "low" ELSE "high"

\* C1: after any sequence of evaluations of readings above max, below min
\* and in range, at most one alert of a sensor_id has is_active = true.
C1_AtMostOneActiveAlert ==
    \A s \in Sensors : Cardinality(ActiveAlerts(alerts, s)) <= 1

\* C2: when the sensor has an active high alert and the evaluated reading is
\* below min (or an active low alert and a reading above max), the
\* evaluation sets the prior alert inactive with resolved_at set and creates
\* one new active alert of the opposite kind.
C2_DirectionFlipClosesPrior ==
    [][LET s == last_eval'.sensor_id
           kind == last_eval'.status
           prior == {a \in ActiveAlerts(alerts, s) :
                        alerts[a].alert_type = Opposite(kind)}
       IN  (Checked /\ kind \in {"high", "low"} /\ prior # {}) =>
               /\ \A a \in prior : Resolved(alerts', a)
               /\ EmitsOne(s, kind)
               /\ alerts'[Len(alerts')].is_active]_vars

\* C3: in a run of consecutive readings of one sensor that are all above max
\* (or all below min), the first reading of the run emits exactly one alert
\* of that kind and the later readings of the run emit none.
C3_OneAlertPerRun ==
    [][LET s == last_eval'.sensor_id
           kind == last_eval'.status
       IN  (Checked /\ kind \in {"high", "low"}) =>
               IF prev_kind[s] # kind THEN EmitsOne(s, kind) ELSE EmitsNone]_vars

\* C4: an in-range reading that follows a breach sets every active alert of
\* the sensor inactive with resolved_at set and emits exactly one normal
\* alert; an in-range reading that follows an in-range reading emits none.
C4_ReturnToNormalClosesAll ==
    [][LET s == last_eval'.sensor_id
       IN  (Checked /\ last_eval'.status = "normal") =>
               /\ prev_kind[s] \in {"high", "low"} =>
                     /\ \A a \in ActiveAlerts(alerts, s) : Resolved(alerts', a)
                     /\ EmitsOne(s, "normal")
               /\ prev_kind[s] = "normal" => EmitsNone]_vars

\* ------------------------------------------------------------------------
\* Properties of the threshold store
\* ------------------------------------------------------------------------
\* the step is a create_sensor_threshold call
Creates == /\ last_thr'.op = "create_sensor_threshold"
           /\ Len(thresholds') = Len(thresholds) + 1

NewThreshold == thresholds'[Len(thresholds')]

InRange(sensor_type, v) ==
    SENSOR_RANGES[sensor_type].min <= v /\ v <= SENSOR_RANGES[sensor_type].max

\* a one-stream store holding the initial draw of a sensor of the type
OneStream(sensor_type, draw) ==
    DictPut(EmptyDict, 1,
        DictPut(EmptyDict, SensorId(1, sensor_type, 1),
            DictPut(EmptyDict, sensor_type, InitialValue(sensor_type, draw))))

\* every type's first value after stream creation is in range, at any hour
FirstValuesInRange ==
    \A t \in Range(SensorTypes), draw \in InitialDraws, hour \in Hours :
        \A change \in Changes(t) :
            /\ InRange(t, InitialValue(t, draw))
            /\ InRange(t, generate_sensor_value(OneStream(t, draw), 1,
                              SensorId(1, t, 1), t, hour, change).value)

\* C9: every value returned by generate_sensor_value and every value stored
\* in last_sensor_values lies in [min, max] of SENSOR_RANGES for its sensor
\* type, after stream creation and after any generation steps at any hour.
C9_GeneratedValuesInRange ==
    /\ \A u \in DOMAIN last_sensor_values :
          \A sid \in DOMAIN last_sensor_values[u] :
             \A t \in DOMAIN last_sensor_values[u][sid] :
                InRange(t, last_sensor_values[u][sid][t])
    /\ last_gen.op = "generate_sensor_value" =>
          InRange(last_gen.sensor_type, last_gen.value)
    /\ gen_steps = 0 => FirstValuesInRange

\* a generation step ran past the upper end of the range and was clamped
C9_Witness ==
    /\ last_gen.op = "generate_sensor_value"
    /\ last_gen.clamped
    /\ last_gen.value = SENSOR_RANGES[last_gen.sensor_type].max
    /\ \E u \in DOMAIN last_sensor_values :
          \E sid \in DOMAIN last_sensor_values[u] :
             /\ last_gen.sensor_type \in DOMAIN last_sensor_values[u][sid]
             /\ last_sensor_values[u][sid][last_gen.sensor_type] = last_gen.value

\* ------------------------------------------------------------------------
\* Properties of the threshold store, continued
\* ------------------------------------------------------------------------
\* the (sensor_type, unit) keys of the rows of the table
ThresholdKeys(ths) ==
    {<<ths[i].sensor_type, ths[i].unit>> : i \in 1..Len(ths)}

NoActiveThreshold(ths, sensor_id) ==
    ActiveThresholds(ths, SensorTypeOf(sensor_id),
                     UnitOf(SensorTypeOf(sensor_id))) = {}

\* C12: when no active threshold exists for the reading's (sensor_type,
\* unit), the evaluation sets the status to normal, creates no alert,
\* broadcasts no sensor_alert and leaves every existing alert unchanged.
C12_NoThresholdNoEffect ==
    [][(Evaluates /\ NoActiveThreshold(thresholds, last_eval'.sensor_id)) =>
          /\ last_eval'.status = "normal"
          /\ last_eval'.alert = 0
          /\ alerts' = alerts
          /\ UNCHANGED <<last_call, active_connections, group_connections,
                         user_connections>>]_vars

\* an owner's reading far above the switched-off threshold was given status
\* normal while the sensor has an active alert from before the switch
C12_Witness ==
    /\ last_eval.op = "check_sensor_thresholds"
    /\ last_eval.user_id # NoUser
    /\ last_eval.value = 2500
    /\ last_eval.status = "normal"
    /\ last_thr.op = "update_sensor_threshold"
    /\ NoActiveThreshold(thresholds, last_eval.sensor_id)
    /\ ActiveAlerts(alerts, last_eval.sensor_id) # {}

\* ------------------------------------------------------------------------
\* Properties of generate_and_save_sensor_data
\* ------------------------------------------------------------------------
\* the step is a run of generate_and_save_sensor_data
Runs == gen_steps' = gen_steps + 1 /\ last_run'.op = "generate_and_save_sensor_data"

\* C13: a run of generate_and_save_sensor_data with check_thresholds = false
\* creates no alert, resolves no alert and broadcasts no sensor_alert, even
\* when a generated value lies outside the active threshold.
C13_ManualRunTouchesNoAlert ==
    [][(Runs /\ ~last_run'.check_thresholds) =>
          /\ alerts' = alerts
          /\ \A k \in 1..Len(last_run'.messages) :
                last_run'.messages[k].type # "sensor_alert"]_vars


\* ------------------------------------------------------------------------
\* The scheduler task
\* ------------------------------------------------------------------------
\* a step of the running task that is neither the shutdown nor a cancellation
LoopStep == ~sim.must_cancel /\ ~sim'.must_cancel /\ sim' # sim

\* processing the first remaining owner raised: nothing was generated
OwnerFailed == LoopStep /\ sim.pc = "owners" /\ gen_steps' = gen_steps

\* User.all() raised
EnumerateFailed == LoopStep /\ sim.pc = "enumerate" /\ sim'.users # AllUsers

\* C14: an exception while one owner is processed leaves the remaining owners
\* of the tick to be processed (or the sleep, after the last one), an
\* exception while the owners are enumerated leads to the sleep of the
\* handler, every sleep that returns starts the next tick, and the task
\* ends only when it was cancelled
C14_TickSurvivesExceptions ==
    [][/\ OwnerFailed =>
             /\ sim'.users = Tail(sim.users)
             /\ sim'.pc = IF Tail(sim.users) = <<>> THEN "sleep" ELSE "owners"
       /\ EnumerateFailed => sim'.pc = "error_sleep"
       /\ (LoopStep /\ sim.pc \in {"sleep", "error_sleep"}) => sim'.pc = "enumerate"
       /\ sim'.pc = "done" => sim'.cancel_requested]_vars

\* owner 1 raised in a tick, owner 2 was processed after it in the same
\* tick, and this tick itself started after an earlier exception
C14_Witness ==
    /\ sim.pc = "sleep"
    /\ sim.failed_owner = 1
    /\ sim.resumed
    /\ last_run.user_id = 2
    /\ ~last_run.raised

\* C15: once shutdown has cancelled the task, the task takes no further step
\* of its loop (no owner, no enumeration, no return from the sleep) and it
\* eventually ends
C15_CancellationEndsTask ==
    /\ [](sim.cancel_requested => ~sim.continued)
    /\ (sim.cancel_requested ~> sim.pc = "done")

\* the cancellation reached the task in its sleep and the task has ended
C15_Witness ==
    /\ sim.cancelled_at = "sleep"
    /\ sim.pc = "done"
    /\ ~sim.continued

\* ------------------------------------------------------------------------
\* websocket_endpoint
\* ------------------------------------------------------------------------
\* C16: a connection whose read loop has ended (its handler has returned) is
\* in neither active_connections nor any group nor any owner list
C16_ClosedHandlerUnregistered ==
    \A c \in Conns : handler[c] = "closed" => Absent(Registry, c)

\* a connection of an owner, registered until then, ended its read loop on
\* a message that is not JSON
C16_Witness ==
    /\ last_call.op = "undecodable"
    /\ last_call.known
    /\ last_call.user # NoUser
    /\ handler[last_call.conn] = "closed"

\* connection c makes its attempt in this step
Attempts(c) == handler[c] = "new" /\ handler'[c] # "new" /\ endpoint'.conn = c

\* the credential is refused by validate_token, or names no active user
BadCredential(token) ==
    \/ token.kind = "invalid"
    \/ /\ token.kind = "valid"
       /\ token.sub \in DOMAIN UserRows => ~UserRows[token.sub].is_active

\* C17: an attempt with a bad credential is closed with the policy-violation
\* code, registers nothing and gets no welcome message, and the rejected
\* connection is never in active_connections, a group or an owner list
C17_BadCredentialRejected ==
    /\ [][\A c \in Conns :
             (Attempts(c) /\ BadCredential(endpoint'.token)) =>
                 /\ handler'[c] = "rejected"
                 /\ endpoint'.code = WS_1008_POLICY_VIOLATION
                 /\ Registry' = Registry
                 /\ last_call'.sent = <<>>]_vars
    /\ [](\A c \in Conns : handler[c] \in {"new", "rejected"} => Absent(Registry, c))

\* the token of an inactive user was presented and the attempt was rejected
\* while another connection is registered
C17_Witness ==
    /\ endpoint.token = [kind |-> "valid", sub |-> InactiveUser]
    /\ handler[endpoint.conn] = "rejected"
    /\ endpoint.code = WS_1008_POLICY_VIOLATION
    /\ active_connections # <<>>

\* C18: with the production settings, an attempt that names an owner id and
\* carries no credential is rejected and is registered neither under that
\* owner nor in the owner's group
C18_ExplicitIdRejectedInProduction ==
    [][\A c \in Conns :
          (/\ Attempts(c)
           /\ endpoint'.production
           /\ endpoint'.token.kind = "none"
           /\ endpoint'.user_id # NoUser) =>
              /\ handler'[c] = "rejected"
              /\ endpoint'.user_id \notin Keys(user_connections', c)
              /\ UserGroup(endpoint'.user_id) \notin Keys(group_connections', c)]_vars

\* C19: right after a successful connect the connection is in
\* active_connections and in sensor:all, and with an owner also in the
\* owner's group and in the owner's list
C19_ConnectRegisters ==
    [][\A c \in Conns :
          (Attempts(c) /\ handler'[c] = "open") =>
              /\ InList(active_connections', c)
              /\ SensorAllGroup \in Keys(group_connections', c)
              /\ conn_user'[c] # NoUser =>
                    /\ UserGroup(conn_user'[c]) \in Keys(group_connections', c)
                    /\ conn_user'[c] \in Keys(user_connections', c)]_vars

\* a connection of owner 1 that named only a group of its own choice
C19_Witness ==
    /\ last_call.op = "connect"
    /\ last_call.user = 1
    /\ Keys(group_connections, last_call.conn) =
           {TypeGroup, SensorAllGroup, UserGroup(1)}
    /\ Keys(user_connections, last_call.conn) = {1}

\* messages of an unrecognized type, or without the fields their type needs
Unrecognized == {"unknown_type", "subscribe_without_groups", "not_an_object"}

\* C20: every unrecognized or malformed message of a live connection is
\* answered with a message to that connection, and the connection stays
\* registered with its read loop running
C20_UnrecognizedAnswered ==
    [][\A c \in Conns :
          (/\ handler[c] = "open"
           /\ alive[c]
           /\ InList(active_connections, c)
           /\ ops' = ops + 1
           /\ last_call'.conn = c
           /\ last_call'.op \in Unrecognized) =>
              /\ last_call'.sent = <<c>>
              /\ handler'[c] = "open"
              /\ InList(active_connections', c)]_vars

\* ------------------------------------------------------------------------
\* Commands of the read loop
\* ------------------------------------------------------------------------
\* connection c handles a request_data message for sensor_data in this step
RequestsData(c) ==
    /\ last_call'.op = "request_data"
    /\ last_call'.conn = c
    /\ gen_steps' = gen_steps + 1 \/ last_call' # last_call

\* C21: every request_data message for sensor_data of a live connection,
\* with or without owner, is answered with a message to that connection
C21_RequestAnswered ==
    [][\A c \in Conns :
          (RequestsData(c) /\ handler[c] = "open" /\ alive[c]) =>
              InList(last_call'.sent, c)]_vars

\* connection c, open and with a working transport, handles a message of
\* type op in this step
Handles(c, op) ==
    /\ last_call'.op = op
    /\ last_call'.conn = c
    /\ ops' = ops + 1
    /\ handler[c] = "open"
    /\ alive[c]

\* the step leaves the memberships of every connection but c as they were
OthersKeep(c) ==
    \A d \in Conns \ {c} : Memberships(Registry', d) = Memberships(Registry, d)

\* C22: after a subscribe the connection is in every listed group, after an
\* unsubscribe in none of them; each is answered with one reply to the
\* connection, and the memberships of the other connections do not change
C22_SubscribeUnsubscribe ==
    [][\A c \in Conns :
          /\ Handles(c, "subscribe") =>
                /\ Range(last_call'.groups) \subseteq Keys(group_connections', c)
                /\ last_call'.sent = <<c>>
                /\ OthersKeep(c)
          /\ Handles(c, "unsubscribe") =>
                /\ Range(last_call'.groups) \cap Keys(group_connections', c) = {}
                /\ last_call'.sent = <<c>>
                /\ OthersKeep(c)]_vars

\* a connection subscribed to two groups it was in neither of
C22_Witness ==
    /\ last_call.op = "subscribe"
    /\ last_call.groups = <<TypeGroup, UserGroup(1)>>
    /\ last_call.conn = 2
    /\ last_call.sent = <<2>>
    /\ {TypeGroup, UserGroup(1)} \subseteq Keys(group_connections, 2)

\* remove_from_group is called for connection c and group g in this step
Removes(c, g) ==
    /\ last_call'.op = "remove_from_group"
    /\ last_call'.conn = c
    /\ last_call'.group = g
    /\ ops' = ops + 1

\* C30: remove_from_group of the only member of a group deletes the group's
\* entry; for a connection that is not in the group, or a group that does
\* not exist, it changes nothing
C30_RemoveFromGroupFrame ==
    [][\A c \in Conns, g \in ClientGroups :
          Removes(c, g) =>
              /\ DictGet(group_connections, g, <<>>) = <<c>> =>
                    g \notin DOMAIN group_connections'
              /\ ~InList(DictGet(group_connections, g, <<>>), c) =>
                    Registry' = Registry]_vars

\* the first operation took the only member out of the group user:1
C30_Witness ==
    /\ ops = 1
    /\ last_call.op = "remove_from_group"
    /\ last_call.conn = 1
    /\ last_call.group = UserGroup(1)
    /\ UserGroup(1) \notin DOMAIN group_connections
\* ------------------------------------------------------------------------
\* Concurrent evaluations
\* ------------------------------------------------------------------------
\* rows i < j are active alerts of one sensor and one breaching direction
\* and no alert of another type was created for the sensor between them
SameDirectionTwice(als, i, j) ==
    /\ i < j
    /\ als[i].sensor_id = als[j].sensor_id
    /\ als[i].alert_type = als[j].alert_type
    /\ als[i].alert_type \in {"high", "low"}
    /\ als[i].is_active /\ als[j].is_active
    /\ \A k \in (i + 1)..(j - 1) :
          als[k].sensor_id = als[i].sensor_id => als[k].alert_type = als[i].alert_type

\* C23: evaluations of one sensor that interleave at their storage awaits
\* de-duplicate like a sequential run: breaching readings of one direction,
\* with no reading of another kind between them, leave one active alert
C23_InterleavedDeduplication ==
    \A i \in 1..Len(alerts), j \in 1..Len(alerts) : ~SameDirectionTwice(alerts, i, j)

\* a send was attempted on connection c
Attempted(f, c) == InList(f.sent, c) \/ InList(f.disconnected, c)

\* C24: when a fan-out returns, a send was attempted on every connection
\* that stayed registered under its key from the start of the call to its end
C24_NoConnectionSkipped ==
    sending.pc = "done" => \A c \in sending.stayed : Attempted(sending, c)

\* the same for the three fan-outs of the connection manager, which iterate
\* over a copy
SnapshotFanOutSkipsNone ==
    sending.op # "owner_loop" => C24_NoConnectionSkipped

\* ------------------------------------------------------------------------
\* Stream sets
\* ------------------------------------------------------------------------
\* a get_or_create_user_sensors call for an owner took the given branch
Took(branch) == last_gen' # last_gen /\ last_gen'.op = branch

\* the owner's stored streams are as many as the configured count
CountMatches(lsv) ==
    \A u \in Owners : u \in DOMAIN lsv /\ StoredCount(lsv, u) = sensor_count[u]

\* C25: a call that finds the stored count different from the configured
\* count returns, with a new stream set of the configured count stored
C25_RecreateTerminates ==
    [][Took("recreate") => ~last_gen'.raised /\ CountMatches(last_sensor_values')]_vars

\* C26: the stream set created for a configured count n has exactly n
\* streams (the ids are the keys of the stored set, so they are distinct)
C26_CreatesConfiguredCount ==
    [][Took("create") => CountMatches(last_sensor_values')]_vars

\* C27: generate_sensor_value for a key with no stored last value raises
\* nothing, returns an in-range value and stores it as the key's last value
C27_UnseenKeySeeded ==
    [][Took("generate_sensor_value") =>
         /\ ~last_gen'.raised
         /\ InRange(last_gen'.sensor_type, last_gen'.value)
         /\ \E u \in DOMAIN last_sensor_values' :
               \E sid \in DOMAIN last_sensor_values'[u] :
                  /\ last_gen'.sensor_type \in DOMAIN last_sensor_values'[u][sid]
                  /\ last_sensor_values'[u][sid][last_gen'.sensor_type] = last_gen'.value
                  /\ ~HasStream(last_sensor_values, u, sid, last_gen'.sensor_type)]_vars

\* ------------------------------------------------------------------------
\* Targets of broadcast_sensor_data
\* ------------------------------------------------------------------------
\* the connections a send was attempted on in the last call
AttemptedOn(call) == Range(call.sent) \cup Range(call.failed)

MembersOf(g) == Range(DictGet(group_connections, g, <<>>))

\* broadcast_to_group was not called for a group that is missing before
\* and after the step: the call would have created its entry
NotTargeted(g) == g \notin DOMAIN group_connections => g \notin DOMAIN group_connections'

\* C29: a reading with an owner goes to group user:<owner> and the owner's
\* connections only, never to sensor:<type>, location:<id> or sensor:all; a
\* reading without owner goes to exactly these three groups
C29_OwnerReadingStaysWithOwner ==
    [][(ops' = ops + 1 /\ last_call'.op = "sensor_data") =>
          LET u == last_call'.user
          IN  IF u # NoUser
              THEN /\ AttemptedOn(last_call') \subseteq
                         MembersOf(UserGroup(u))
                         \cup Range(DictGet(user_connections, u, <<>>))
                   /\ \A g \in Range(FallbackGroups) : NotTargeted(g)
              ELSE /\ AttemptedOn(last_call') =
                         UNION {MembersOf(g) : g \in Range(FallbackGroups)}
                   /\ \A g \in Range(FallbackGroups) :
                         g \notin DOMAIN group_connections =>
                             g \in DOMAIN group_connections'
                   /\ \A v \in Users : NotTargeted(UserGroup(v))]_vars

\* a reading of owner 1 was delivered while a connection of nobody or of
\* another owner sits in sensor:all, outside user:1, and got nothing
C29_Witness ==
    /\ last_call.op = "sensor_data"
    /\ last_call.user = 1
    /\ last_call.sent # <<>>
    /\ \E c \in MembersOf(SensorAllGroup) :
          /\ conn_user[c] # 1
          /\ c \notin MembersOf(UserGroup(1))
          /\ c \notin AttemptedOn(last_call)

\* ------------------------------------------------------------------------
\* The pipeline of one reading
\* ------------------------------------------------------------------------
\* the status check_sensor_thresholds gives a reading of the type and value
AssignedStatus(sensor_type, value) ==
    check_sensor_thresholds(thresholds, <<>>, "none", sensor_type, value, NoUser).status

\* the message at position k of the run is the sensor_data message of the
\* reading of message m
DataOfReading(msgs, k, m) ==
    /\ k \in 1..Len(msgs)
    /\ msgs[k].type = "sensor_data"
    /\ msgs[k].sensor_id = m.sensor_id
    /\ msgs[k].value = m.value

\* C28: generate, evaluate, broadcast.  The value of a sensor_data message
\* is the value generated for its stream; its status is the one the
\* threshold evaluation assigned; every alert the run created was sent as a
\* sensor_alert right before the sensor_data message of its reading
C28_ReadingPipeline ==
    [][Runs =>
          LET msgs == last_run'.messages
              u == last_run'.user_id
          IN  /\ \A k \in 1..Len(msgs) :
                    msgs[k].type = "sensor_data" =>
                       /\ last_sensor_values'[u][msgs[k].sensor_id][msgs[k].sensor_type]
                              = msgs[k].value
                       /\ msgs[k].status = AssignedStatus(msgs[k].sensor_type,
                                                          msgs[k].value)
              /\ \A k \in 1..Len(msgs) :
                    msgs[k].type = "sensor_alert" => DataOfReading(msgs, k + 1, msgs[k])
              /\ Cardinality({k \in 1..Len(msgs) : msgs[k].type = "sensor_alert"})
                    = Len(alerts') - Len(alerts)]_vars

\* a run sent the alert of a reading above the maximum and then the reading
\* with status "high"
C28_Witness ==
    /\ last_run.op = "generate_and_save_sensor_data"
    /\ \E k \in 1..Len(last_run.messages) :
          /\ last_run.messages[k].type = "sensor_alert"
          /\ last_run.messages[k].status = "high"
          /\ DataOfReading(last_run.messages, k + 1, last_run.messages[k])
          /\ last_run.messages[k + 1].status = "high"

\* ------------------------------------------------------------------------
\* Closing records
\* ------------------------------------------------------------------------
NormalAlertsInactive ==
    \A i \in 1..Len(alerts) : alerts[i].alert_type = "normal" => ~alerts[i].is_active

\* the step itself sets an active high or low alert of the sensor inactive
ClosesInStep(sensor_id) ==
    \E j \in 1..Len(alerts) :
        /\ alerts[j].sensor_id = sensor_id
        /\ alerts[j].alert_type \in {"high", "low"}
        /\ alerts[j].is_active /\ ~alerts'[j].is_active

\* the step is the create of an evaluation whose resolve_alert set an active
\* alert of the sensor inactive
ClosedByTask(sensor_id) ==
    \E t \in Tasks :
        /\ evaluating[t].pc = "normalise" /\ evaluating'[t].pc = "idle"
        /\ evaluating[t].sensor_id = sensor_id
        /\ evaluating[t].closed

\* C31: a normal alert is never active, and it is created only by an
\* evaluation that resolves an active high or low alert of the same sensor
C31_NormalIsClosingRecord ==
    /\ []NormalAlertsInactive
    /\ [][\A i \in (Len(alerts) + 1)..Len(alerts') :
             alerts'[i].alert_type = "normal" =>
                ClosesInStep(alerts'[i].sensor_id) \/ ClosedByTask(alerts'[i].sensor_id)]_vars

\* ------------------------------------------------------------------------
\* The resolve_alert request
\* ------------------------------------------------------------------------
\* the step is a resolve_alert request
Resolves == last_eval'.op = "resolve_alert"

\* C32: resolve_alert on the id of an alert sets that alert inactive with
\* resolved_at set and changes no other alert; on an id of no alert it
\* changes nothing and the request is answered with a system error envelope
C32_ResolveAlert ==
    [][Resolves =>
          LET id == last_eval'.alert
          IN  /\ Len(alerts') = Len(alerts)
              /\ \A j \in 1..Len(alerts) : j # id => alerts'[j] = alerts[j]
              /\ IF id \in 1..Len(alerts)
                 THEN /\ Resolved(alerts', id)
                      /\ last_eval'.status = "request_completed"
                 ELSE /\ last_eval'.status = "system"
                      /\ last_call'.sent = <<last_call'.conn>>]_vars

\* an alert was resolved on request while another alert is still active
C32_Witness ==
    /\ last_eval.op = "resolve_alert"
    /\ last_eval.status = "request_completed"
    /\ Resolved(alerts, last_eval.alert)
    /\ \E j \in 1..Len(alerts) : j < last_eval.alert /\ alerts[j].is_active

\* C37: a resolve_alert request on a connection of owner A changes only
\* alerts whose user_id is A
C37_ResolveOwnAlertsOnly ==
    [][(Resolves /\ last_eval'.user_id # NoUser) =>
          \A j \in 1..Len(alerts) :
              alerts'[j] # alerts[j] => alerts[j].user_id = last_eval'.user_id]_vars

\* C33: the status of a reading evaluated against a threshold is high exactly
\* when value > max_value, low exactly when value < min_value and normal
\* otherwise; a value equal to min_value or max_value is normal and opens
\* no high or low alert
C33_StrictComparisons ==
    [][Evaluates =>
          LET id == FirstActiveThreshold(thresholds,
                                         SensorTypeOf(last_eval'.sensor_id),
                                         UnitOf(SensorTypeOf(last_eval'.sensor_id)))
              v == last_eval'.value
              status == last_eval'.status
          IN  id # 0 =>
                /\ status \in {"high", "low", "normal"}
                /\ status = "high" <=> v > thresholds[id].max_value
                /\ status = "low" <=> v < thresholds[id].min_value
                /\ v \in {thresholds[id].min_value, thresholds[id].max_value} =>
                      /\ status = "normal"
                      /\ \A j \in (Len(alerts) + 1)..Len(alerts') :
                             alerts'[j].alert_type = "normal"]_vars

\* an owner's reading equal to the maximum of the active threshold was
\* evaluated as normal while an alert of the sensor was active, and closed it
C33_Witness ==
    /\ last_thr = NoThresholdOp
    /\ Len(thresholds) = 1
    /\ thresholds[1].is_active
    /\ last_eval.op = "check_sensor_thresholds"
    /\ last_eval.checked
    /\ last_eval.value = thresholds[1].max_value
    /\ last_eval.status = "normal"
    /\ last_eval.alert # 0
    /\ alerts[last_eval.alert].alert_type = "normal"

\* the connections held by some group list or some owner list
Indexed ==
    UNION {Range(group_connections[g]) : g \in DOMAIN group_connections}
    \cup UNION {Range(user_connections[u]) : u \in DOMAIN user_connections}

\* C34: every connection that is in a group of group_connections or in an
\* owner list of user_connections is in active_connections
C34_IndexedAreActive == Indexed \subseteq Range(active_connections)

\* C35: group_connections holds no group whose member list is empty
C35_NoEmptyGroup ==
    \A g \in DOMAIN group_connections : group_connections[g] # <<>>

\* how many of the sends listed in sent went to connection c
TimesSent(sent, c) == Cardinality({i \in 1..Len(sent) : sent[i] = c})

\* C36: a sensor_data or sensor_alert message of an owner is sent to a
\* connection at most once
C36_OwnerMessageSentOnce ==
    (last_call.op \in {"sensor_data", "sensor_alert"} /\ last_call.user # NoUser) =>
        \A c \in Conns : TimesSent(last_call.sent, c) <= 1

\* C38: an alert created for a reading of owner A comes from a threshold
\* that A created, never from one created by another owner
C38_OwnThresholdApplied ==
    [][(alerts' # alerts /\ last_eval'.op = "check_sensor_thresholds") =>
          LET sensor_type == SensorTypeOf(last_eval'.sensor_id)
              id == FirstActiveThreshold(thresholds, sensor_type, UnitOf(sensor_type))
          IN  /\ id # 0
              /\ thresholds[id].created_by = last_eval'.user_id]_vars

\* every active threshold is a synthesized default
OnlyDefaultsActive ==
    \A i \in 1..Len(thresholds) :
        (~thresholds[i].deleted /\ thresholds[i].is_active) =>
            thresholds[i] = DefaultThreshold(thresholds[i].sensor_type,
                                             thresholds[i].created_by)

\* the messages of the run that carry the given status or alert type
WithStatus(msgs, type, statuses) ==
    {k \in 1..Len(msgs) : msgs[k].type = type /\ msgs[k].status \in statuses}

\* C39: while the only active thresholds are the synthesized defaults, no
\* reading of the generator gets status high or low or creates an alert
C39_DefaultsNeverAlert ==
    [][(Runs /\ OnlyDefaultsActive) =>
          /\ WithStatus(last_run'.messages, "sensor_data", {"high", "low"}) = {}
          /\ alerts' = alerts]_vars

\* C39, amended: while the only active thresholds are the synthesized
\* defaults, no reading of the generator gets status high or low or creates
\* a high or low alert; a run creates alerts only as normal records for
\* sensors that had an active alert
C39_DefaultsNeverBreach ==
    [][(Runs /\ OnlyDefaultsActive) =>
          /\ WithStatus(last_run'.messages, "sensor_data", {"high", "low"}) = {}
          /\ WithStatus(last_run'.messages, "sensor_alert", {"high", "low"}) = {}
          /\ Len(alerts') >= Len(alerts)
          /\ \A j \in (Len(alerts) + 1)..Len(alerts') :
                /\ alerts'[j].alert_type = "normal"
                /\ ActiveAlerts(alerts, alerts'[j].sensor_id) # {}
          /\ (\A j \in 1..Len(alerts) : ~alerts[j].is_active) => alerts' = alerts]_vars

\* under default thresholds a run produced a reading at the upper end of
\* the generator's range with status normal
C39_Witness ==
    /\ OnlyDefaultsActive
    /\ \E i \in 1..Len(thresholds) : ~thresholds[i].deleted /\ thresholds[i].is_active
    /\ last_run.op = "generate_and_save_sensor_data"
    /\ \E k \in 1..Len(last_run.messages) :
          /\ last_run.messages[k].type = "sensor_data"
          /\ last_run.messages[k].value = SENSOR_RANGES[last_run.messages[k].sensor_type].max
          /\ last_run.messages[k].status = "normal"

====
